---- MODULE Spec2Model ----
(***************************************************************************)
(* A model of cargo-caps: the rule engine (cap_rule.rs), the symbol to     *)
(* path decoding (symbol.rs, rust_type.rs, rust_path.rs, crate_name.rs),   *)
(* the capability deducer (capability.rs), the usage-kind flood-fill       *)
(* (build_graph_analysis.rs) and the per-artifact checker (checker.rs,     *)
(* analyzer.rs), the check command (commands/check.rs), the demangler      *)
(* (demangle.rs), the construction of the dependency graph from cargo's    *)
(* metadata and the merging of source scans (src_analysis.rs).             *)
(*                                                                         *)
(* A Rust string is modelled as a sequence of one-character strings, so    *)
(* that prefix tests, splitting and byte-wise ordering are computed as the *)
(* code computes them.                                                     *)
(***************************************************************************)
EXTENDS Integers, Sequences, FiniteSets, TLC

VARIABLES
    \* ---- Rules::match_symbol (cap_rule.rs) ----
    rules,          \* the rule table
    query,          \* the string handed to match_symbol
    matched,        \* [done |-> FALSE], or the Option match_symbol returned
    \* ---- DeducedCaps::from_symbols (capability.rs) ----
    input,          \* the symbols handed to from_symbols, in the order given
    symbols,        \* the symbols the loop of from_symbols has not taken yet
    slf,            \* the DeducedCaps being filled
    outcome,        \* "running", "ok", "err" (from_symbols returned Err) or "panic"
    \* ---- DepGraph::compute_dependency_kinds (build_graph_analysis.rs) ----
    graph,          \* the DepGraph: its edges and the starting packages
    kind,           \* node -> set of DepKind
    queue,          \* the work queue
    fpc,            \* "seed", "loop" or "done"
    steps,          \* the number of nodes taken from the queue so far
    \* ---- Checker (checker.rs) ----
    checker,        \* the Checker: its config, show_empty and metadata
    artifacts,      \* the number of artifacts of the build handled so far
    crate_caps,     \* CheckerOutput: crate -> target kind -> DeducedCapabilities
    last,           \* the last call: its arguments and what it returned
    \* ---- CheckCommand::execute (commands/check.rs) ----
    pc,             \* where execute is
    trace,          \* what execute has done so far, in order
    \* ---- Symbol (symbol.rs, demangle.rs) ----
    symbol_name,    \* the name as the symbol table has it
    decoding,       \* what has been made of the name so far
    \* ---- DepGraph::from_metadata (build_graph_analysis.rs) ----
    metadata,       \* cargo's metadata and the starting packages
    built,          \* the DepGraph under construction, the queue, the visited set
    \* ---- Checker::analyze_artifact (checker.rs) ----
    crate_infos,    \* Option<&HashMap<PackageId, DepKindSet>>
    num_artifacts_passed,   \* CheckerOutput::num_artifacts_passed
    \* ---- ExternalUsage::merge (src_analysis.rs) ----
    usage           \* the two ExternalUsage values and the call made

vars == <<rules, query, matched, input, symbols, slf, outcome,
          graph, kind, queue, fpc, steps, checker, artifacts, crate_caps, last,
          pc, trace, symbol_name, decoding, metadata, built, crate_infos,
          num_artifacts_passed, usage>>

matchVars == <<query, matched>>
deducerVars == <<input, symbols, slf, outcome>>
floodVars == <<graph, kind, queue, fpc, steps>>
checkerVars == <<checker, artifacts, crate_caps, last>>
runVars == <<pc, trace>>
symbolVars == <<symbol_name, decoding>>
metaVars == <<metadata, built>>
analyzeVars == <<crate_infos, num_artifacts_passed>>
usageVars == <<usage>>

\* ------------------------------------------------------------------------
\* Option<T>
None == [some |-> FALSE]
Some(v) == [some |-> TRUE, val |-> v]

\* ------------------------------------------------------------------------
\* Strings.  AsciiOrder lists the characters of the model in byte order.
AsciiOrder ==
    <<" ", "\"", "&", "(", ")", "*", ",", "-", ".", "1", ":", ";", "<", ">",
      "C", "T", "[", "]", "_",
      "a", "b", "c", "d", "e", "f", "g", "h", "i", "j", "k", "l", "m", "n",
      "o", "p", "q", "r", "s", "t", "u", "v", "w", "x", "y", "z">>

CharRank(c) == CHOOSE i \in 1..Len(AsciiOrder) : AsciiOrder[i] = c

\* str::cmp: byte-wise lexicographic order
RECURSIVE StrLess(_, _)
StrLess(a, b) ==
    IF b = <<>> THEN FALSE
    ELSE IF a = <<>> THEN TRUE
    ELSE IF Head(a) = Head(b) THEN StrLess(Tail(a), Tail(b))
    ELSE CharRank(Head(a)) < CharRank(Head(b))

\* s[from..], with from a 0-based byte offset
SliceFrom(s, from) == SubSeq(s, from + 1, Len(s))
\* s[from..to], 0-based, to exclusive
Slice(s, from, to) == SubSeq(s, from + 1, to)

starts_with(s, p) == Len(p) <= Len(s) /\ SubSeq(s, 1, Len(p)) = p
ends_with(s, p) == Len(p) <= Len(s) /\ SubSeq(s, Len(s) - Len(p) + 1, Len(s)) = p

\* str::find / str::rfind: the 0-based offset of the first / last occurrence
MatchOffsets(s, p) == {i \in 0..(Len(s) - Len(p)) : starts_with(SliceFrom(s, i), p)}
find(s, p) ==
    IF MatchOffsets(s, p) = {} THEN None
    ELSE Some(CHOOSE i \in MatchOffsets(s, p) : \A j \in MatchOffsets(s, p) : i <= j)
rfind(s, p) ==
    IF MatchOffsets(s, p) = {} THEN None
    ELSE Some(CHOOSE i \in MatchOffsets(s, p) : \A j \in MatchOffsets(s, p) : j <= i)
contains(s, p) == MatchOffsets(s, p) # {}

\* str::strip_prefix
strip_prefix(s, p) == IF starts_with(s, p) THEN Some(SliceFrom(s, Len(p))) ELSE None

\* str::trim_start_matches('_')
RECURSIVE trim_start_underscores(_)
trim_start_underscores(s) ==
    IF s # <<>> /\ Head(s) = "_" THEN trim_start_underscores(Tail(s)) ELSE s

\* str::split("::")
RECURSIVE split_colons(_)
split_colons(s) ==
    LET at == find(s, <<":", ":">>)
    IN  IF at.some
        THEN <<Slice(s, 0, at.val)>> \o split_colons(SliceFrom(s, at.val + 2))
        ELSE <<s>>

\* ------------------------------------------------------------------------
\* cap_rule.rs

\* #[derive(Ord)] on Pattern: Exact sorts before StartsWith, then by text
PatternLess(p, q) ==
    IF p.kind # q.kind THEN p.kind = "Exact" ELSE StrLess(p.text, q.text)

\* the iteration order of a BTreeSet<Pattern>
RECURSIVE BTreeSetIter(_)
BTreeSetIter(S) ==
    IF S = {} THEN <<>>
    ELSE LET m == CHOOSE p \in S : \A q \in S \ {p} : PatternLess(p, q)
         IN  <<m>> \o BTreeSetIter(S \ {m})

PatternMatches(m, symbol) ==
    \/ m.kind = "Exact" /\ m.text = symbol
    \/ m.kind = "StartsWith" /\ starts_with(symbol, m.text)

\* A slip in the comparison (>= for >): a later match of equal or greater
\* length, or with the test dropped any later match, replaces the best one.
BestMatchStep_LastWins(best_match, rule, m, symbol) ==
    IF PatternMatches(m, symbol)
    THEN Some([rule |-> rule, specificity |-> Len(m.text)])
    ELSE best_match

\* A slip in the comparison (>= for >): of two matching patterns of one
\* length the later one wins.
BestMatchStep_TieToLater(best_match, rule, m, symbol) ==
    IF PatternMatches(m, symbol)
       /\ (~best_match.some \/ Len(m.text) >= best_match.val.specificity)
    THEN Some([rule |-> rule, specificity |-> Len(m.text)])
    ELSE best_match

\* one turn of the inner loop of match_symbol: best_match after pattern m of
\* the rule at index `rule`
BestMatchStep(best_match, rule, m, symbol) ==
    IF PatternMatches(m, symbol)
       /\ (~best_match.some \/ Len(m.text) > best_match.val.specificity)
    THEN Some([rule |-> rule, specificity |-> Len(m.text)])
    ELSE best_match

RECURSIVE BestOverPatterns(_, _, _, _)
BestOverPatterns(best_match, rule, ms, symbol) ==
    IF ms = <<>> THEN best_match
    ELSE BestOverPatterns(BestMatchStep(best_match, rule, Head(ms), symbol),
                          rule, Tail(ms), symbol)

RECURSIVE BestOverRules(_, _, _, _)
BestOverRules(best_match, rs, i, symbol) ==
    IF i > Len(rs) THEN best_match
    ELSE BestOverRules(
            BestOverPatterns(best_match, i, BTreeSetIter(rs[i].pattern), symbol),
            rs, i + 1, symbol)

\* Rules::match_symbol: Option<&CapabilitySet>
match_symbol(rs, symbol) ==
    LET best_match == BestOverRules(None, rs, 1, symbol)
    IN  IF best_match.some THEN Some(rs[best_match.val.rule].caps) ELSE None

\* ------------------------------------------------------------------------
\* Result<T, anyhow::Error>
Ok(v) == [ok |-> TRUE, val |-> v]
Err == [ok |-> FALSE]

\* ------------------------------------------------------------------------
\* crate_name.rs

is_ascii_digit(c) == c \in {"0", "1", "2", "3", "4", "5", "6", "7", "8", "9"}
is_ascii_alphanumeric(c) ==
    \/ is_ascii_digit(c)
    \/ c \in {"C", "T"}
    \/ CharRank(c) >= CharRank("a") /\ CharRank(c) <= CharRank("z")

\* CrateName::new: Err for an empty name, a character that is neither
\* alphanumeric nor '_' (after '-' became '_'), or a leading digit
CrateName_new(name) ==
    LET normalized == [i \in 1..Len(name) |-> IF name[i] = "-" THEN "_" ELSE name[i]]
    IN  IF name = <<>> THEN Err
        ELSE IF \E i \in 1..Len(normalized) :
                    ~(is_ascii_alphanumeric(normalized[i]) \/ normalized[i] = "_")
        THEN Err
        ELSE IF is_ascii_digit(normalized[1]) THEN Err
        ELSE Ok(normalized)

is_standard_crate(crate_name) ==
    crate_name \in {<<"a", "l", "l", "o", "c">>, <<"c", "o", "r", "e">>, <<"s", "t", "d">>}

\* ------------------------------------------------------------------------
\* rust_path.rs

\* RustPath::segments
segments(path) == IF path = <<>> THEN <<>> ELSE split_colons(path)

\* ------------------------------------------------------------------------
\* rust_type.rs

\* the prefixes TypeName::parse strips, in the order it tries them
parse_prefixes ==
    << <<"*">>, <<"&">>, <<"c", "o", "n", "s", "t">>, <<"d", "y", "n">>,
       <<"m", "u", "t">>, <<"u", "n", "s", "a", "f", "e">>,
       <<"e", "x", "t", "e", "r", "n", " ", "\"", "C", "\"">>, <<" ">> >>

\* the prefixes strip_indirections strips, in the order it tries them
indirection_prefixes ==
    << <<"&">>, <<"*">>, <<"m", "u", "t">>, <<"c", "o", "n", "s", "t">>,
       <<"d", "y", "n">>, <<" ">> >>

\* the index of the first prefix of `prefixes` that `s` starts with, or 0
FirstPrefix(prefixes, s) ==
    LET hits == {i \in 1..Len(prefixes) : starts_with(s, prefixes[i])}
    IN  IF hits = {} THEN 0 ELSE CHOOSE i \in hits : \A j \in hits : i <= j

RECURSIVE strip_indirections(_)
strip_indirections(path) ==
    LET hit == FirstPrefix(indirection_prefixes, path)
    IN  IF hit = 0 THEN path
        ELSE strip_indirections(SliceFrom(path, Len(indirection_prefixes[hit])))

RECURSIVE TypeName_parse(_)
RECURSIVE parse_tuple_scan(_, _, _, _, _)
RECURSIVE caret_scan(_, _, _, _)

\* TypeName::parse_tuple: Ok([elements, rem]) or Err
parse_tuple(symbol) == parse_tuple_scan(symbol, 0, 0, 1, <<>>)

\* the loop of parse_tuple at byte i
parse_tuple_scan(symbol, i, parens_depth, last_start, elements) ==
    IF i >= Len(symbol) THEN Err    \* "Misaligned parenthesis"
    ELSE
    LET c == symbol[i + 1]
        depth == IF c = "(" THEN parens_depth + 1
                 ELSE IF c = ")" THEN parens_depth - 1
                 ELSE parens_depth
        split == c = "," /\ parens_depth = 1
        elem == TypeName_parse(Slice(symbol, last_start, i))
    IN  IF split /\ ~elem.ok THEN Err
        ELSE
        LET elements2 == IF split THEN Append(elements, elem.val) ELSE elements
            last_start2 == IF split THEN i + 1 ELSE last_start
        IN  IF depth = 0
            THEN LET final == TypeName_parse(Slice(symbol, last_start2, i))
                 IN  IF final.ok
                     THEN Ok([elements |-> Append(elements2, final.val),
                              rem |-> SliceFrom(symbol, i + 1)])
                     ELSE Err
            ELSE parse_tuple_scan(symbol, i + 1, depth, last_start2, elements2)

\* the loop of the '<' arm of TypeName::parse at byte i (release build: the
\* debug_assert on a second " as " is compiled out and the last one wins)
caret_scan(symbol, i, caret_depth, as_pos) ==
    IF i >= Len(symbol) THEN Err    \* "Bad type name"
    ELSE
    LET as_pos2 == IF caret_depth = 1
                      /\ starts_with(SliceFrom(symbol, i), <<" ", "a", "s", " ">>)
                   THEN Some(i) ELSE as_pos
        c == symbol[i + 1]
        depth == IF c = "<" THEN caret_depth + 1
                 ELSE IF c = ">" /\ ~(0 < i /\ symbol[i] = "-") THEN caret_depth - 1
                 ELSE caret_depth
    IN  IF depth = 0
        THEN IF as_pos2.some
             THEN LET type_name == TypeName_parse(Slice(symbol, 1, as_pos2.val))
                      trait_name == TypeName_parse(Slice(symbol, as_pos2.val + 4, i))
                  IN  IF starts_with(SliceFrom(symbol, i), <<">", ":", ":">>)
                      THEN IF type_name.ok /\ trait_name.ok
                           THEN Ok([tag |-> "AssociatedPath",
                                    type_name |-> type_name.val,
                                    trait_name |-> trait_name.val,
                                    associated_type |-> SliceFrom(symbol, i + 3)])
                           ELSE Err
                      ELSE IF type_name.ok /\ trait_name.ok
                           THEN Ok([tag |-> "TypeAsTrait",
                                    type_name |-> type_name.val,
                                    trait_name |-> trait_name.val])
                           ELSE Err
             ELSE IF i + 1 = Len(symbol)
                  THEN Ok([tag |-> "RustPath",
                           path |-> strip_indirections(Slice(symbol, 1, i))])
                  ELSE Err    \* "Unexpected characters after closing bracket"
        ELSE caret_scan(symbol, i + 1, depth, as_pos2)

TypeName_parse(symbol) ==
    IF starts_with(symbol, <<"_", "<">>) THEN TypeName_parse(SliceFrom(symbol, 1))
    ELSE
    LET hit == FirstPrefix(parse_prefixes, symbol)
    IN  IF hit # 0
        THEN LET typ == TypeName_parse(SliceFrom(symbol, Len(parse_prefixes[hit])))
             IN  IF typ.ok
                 THEN Ok([tag |-> "Prefixed", prefix |-> parse_prefixes[hit],
                          typ |-> typ.val])
                 ELSE Err
        ELSE IF starts_with(symbol, <<"f", "n", "(">>)
        THEN LET t == parse_tuple(SliceFrom(symbol, 2))
             IN  IF ~t.ok THEN Err
                 ELSE LET typ == strip_prefix(t.val.rem, <<" ", "-", ">", " ">>)
                          ret == TypeName_parse(typ.val)
                      IN  IF ~typ.some
                          THEN Ok([tag |-> "Fn", params |-> t.val.elements, ret |-> None])
                          ELSE IF ret.ok
                          THEN Ok([tag |-> "Fn", params |-> t.val.elements,
                                   ret |-> Some(ret.val)])
                          ELSE Err
        ELSE IF starts_with(symbol, <<"<">>)
        THEN caret_scan(symbol, 0, 0, None)
        ELSE IF starts_with(symbol, <<"(">>)
        THEN LET t == parse_tuple(symbol)
             IN  IF t.ok /\ t.val.rem = <<>>
                 THEN Ok([tag |-> "Tuple", elements |-> t.val.elements])
                 ELSE Err
        ELSE IF starts_with(symbol, <<"[">>)
        THEN IF ends_with(symbol, <<"]">>)
             THEN LET semi == rfind(symbol, <<";", " ">>)
                      inner == IF semi.some THEN Slice(symbol, 1, semi.val)
                               ELSE Slice(symbol, 1, Len(symbol) - 1)
                      element == TypeName_parse(inner)
                  IN  IF element.ok
                      THEN Ok([tag |-> "Slice", element |-> element.val])
                      ELSE Err
             ELSE Err    \* "Bad type name"
        ELSE Ok([tag |-> "RustPath", path |-> symbol])

RECURSIVE collect_path(_)
RECURSIVE collect_paths_of(_)
\* TypeName::collect_path: the paths pushed, in order
collect_path(t) ==
    CASE t.tag = "RustPath" -> <<strip_indirections(t.path)>>
      [] t.tag = "Prefixed" -> collect_path(t.typ)
      [] t.tag = "Slice" -> collect_path(t.element)
      [] t.tag = "Tuple" -> collect_paths_of(t.elements)
      [] t.tag \in {"TypeAsTrait", "AssociatedPath"} ->
            collect_path(t.type_name) \o collect_path(t.trait_name)
      [] t.tag = "Fn" ->
            collect_paths_of(t.params)
            \o (IF t.ret.some THEN collect_path(t.ret.val) ELSE <<>>)

collect_paths_of(ts) ==
    IF ts = <<>> THEN <<>> ELSE collect_path(Head(ts)) \o collect_paths_of(Tail(ts))

\* TraitFnImpl::parse
TraitFnImpl_parse(symbol) ==
    LET last_colon_pos == rfind(symbol, <<">", ":", ":">>)
        type_name == TypeName_parse(Slice(symbol, 0, last_colon_pos.val + 1))
    IN  IF ~last_colon_pos.some THEN Err
        ELSE IF type_name.ok
        THEN Ok([type_name |-> type_name.val,
                 function_name |-> SliceFrom(symbol, last_colon_pos.val + 3)])
        ELSE Err


\* A slip: only the trait of the implementation is collected.
TraitFnImpl_paths_TraitOnly(trait_impl) ==
    IF trait_impl.type_name.tag \in {"TypeAsTrait", "AssociatedPath"}
    THEN collect_path(trait_impl.type_name.trait_name)
    ELSE <<>>

\* TraitFnImpl::paths
TraitFnImpl_paths(trait_impl) == collect_path(trait_impl.type_name)

\* ------------------------------------------------------------------------
\* symbol.rs

\* FunctionOrPath::from_demangled: [panic |-> TRUE] at the panic!("Weird
\* symbol"), else the Vec<FunctionOrPath> returned
from_demangled(demangled) ==
    LET end_bracket == find(demangled, <<"]", ":", ":">>)
        trait_impl == TraitFnImpl_parse(demangled)
    IN  IF starts_with(demangled, <<"r", "u", "s", "t", "c", "[">>)
        THEN IF end_bracket.some
             THEN [panic |-> FALSE,
                   paths |-> << [tag |-> "Function",
                                 name |-> SliceFrom(demangled, end_bracket.val + 3)] >>]
             ELSE [panic |-> TRUE]
        ELSE IF trait_impl.ok
        THEN [panic |-> FALSE,
              paths |-> LET all == TraitFnImpl_paths(trait_impl.val)
                        IN  [i \in 1..Len(SelectSeq(all, LAMBDA p : Len(segments(p)) > 1))
                              |-> [tag |-> "RustPath",
                                   path |-> SelectSeq(all,
                                              LAMBDA p : Len(segments(p)) > 1)[i]]]]
        ELSE IF contains(demangled, <<":", ":">>)
        THEN [panic |-> FALSE, paths |-> << [tag |-> "RustPath", path |-> demangled] >>]
        ELSE [panic |-> FALSE, paths |-> << [tag |-> "Function", name |-> demangled] >>]

\* ------------------------------------------------------------------------
\* Inputs of the rule engine and of the deducer

MaxRules == 3       \* the longest rule table handed to match_symbol
MaxSymbols == 2     \* the longest symbol list handed to from_symbols

SeqsUpTo(S, n) == UNION {[1..k -> S] : k \in 0..n}

std_ == <<"s", "t", "d", ":", ":">>                              \* std::
std_fs_ == <<"s", "t", "d", ":", ":", "f", "s", ":", ":">>       \* std::fs::
std_fs_x == <<"s", "t", "d", ":", ":", "f", "s", ":", ":", "x">> \* std::fs::x
std_fs_y == <<"s", "t", "d", ":", ":", "f", "s", ":", ":", "y">> \* std::fs::y
std_x == <<"s", "t", "d", ":", ":", "x">>                        \* std::x
open == <<"o", "p", "e", "n">>                                   \* open
a_f == <<"a", ":", ":", "f">>                                    \* a::f

\* rules in the shape of default_rules.eon
RulePool ==
    { [pattern |-> {[kind |-> "StartsWith", text |-> std_]},
       caps |-> {"Alloc", "Panic"}],
      [pattern |-> {[kind |-> "StartsWith", text |-> std_fs_],
                    [kind |-> "Exact", text |-> open]},
       caps |-> {"FS"}],
      [pattern |-> {[kind |-> "Exact", text |-> std_fs_x]},
       caps |-> {}],
      [pattern |-> {[kind |-> "StartsWith", text |-> std_fs_x]},
       caps |-> {"Unsafe"}] }

QueryPool == {std_fs_x, std_fs_y, std_x, open, a_f, <<>>}

\* the rule tables the deducer is run with
DeducerTables ==
    { <<>>,
      << [pattern |-> {[kind |-> "StartsWith", text |-> std_fs_],
                       [kind |-> "Exact", text |-> open]},
          caps |-> {"FS"}],
         [pattern |-> {[kind |-> "StartsWith", text |-> std_]},
          caps |-> {"Alloc", "Panic"}] >>,
      << [pattern |-> {[kind |-> "StartsWith", text |-> std_]},
          caps |-> {"Alloc", "Panic"}],
         [pattern |-> {[kind |-> "Exact", text |-> open]},
          caps |-> {}] >> }

\* demangled symbol names
SymbolPool ==
    { std_fs_x,                                              \* std::fs::x
      a_f,                                                   \* a::f
      <<"a", "-", "b", ":", ":", "f">>,                      \* a-b::f
      open,                                                  \* open
      <<"c">>,                                               \* c
      <<"_", "o", "p", "e", "n">>,                           \* _open
      <<"r", "u", "s", "t", "c", "[", "1", "]", ":", ":", "o", "p", "e", "n">>,
                                                             \* rustc[1]::open
      <<"r", "u", "s", "t", "c", "[", "1">>,                 \* rustc[1
      <<"1", "a", ":", ":", "f">>,                           \* 1a::f
      <<"<", "a", ":", ":", "x">>,                           \* <a::x
      <<"<", "a", ":", ":", "t", " ", "a", "s", " ", "b", ":", ":", "r", ">",
        ":", ":", "f">>,                                     \* <a::t as b::r>::f
      <<"<", "T", " ", "a", "s", " ", "s", "t", "d", ":", ":", "f", "s", ":",
        ":", "x", ">", ":", ":", "f">> }                     \* <T as std::fs::x>::f

\* ------------------------------------------------------------------------
\* capability.rs

\* enum Capability, in declaration order; Any is the catch-all of the
\* Capability enum that checker.rs and analyzer.rs are written against
Capabilities ==
    {"BuildRs", "Alloc", "Panic", "Time", "Sysinfo", "Stdio", "Thread", "Net",
     "FS", "Unsafe", "Command", "Unknown", "Wildcard"}

\* A slip: Unknown listed with the harmless capabilities.
is_critical_UnknownHarmless(c) == c \in {"Unsafe", "Command", "Wildcard"}

\* Capability::is_critical
is_critical(c) == c \in {"Unsafe", "Command", "Unknown", "Wildcard"}

\* DeducedCaps::default()
EmptyDeducedCaps == [caps |-> <<>>, unresolved_crates |-> <<>>]

\* map.entry(k).or_default().insert(v), for a BTreeMap of BTreeSets
EntryInsert(map, k, v) ==
    IF k \in DOMAIN map THEN [map EXCEPT ![k] = @ \cup {v}] ELSE map @@ (k :> {v})

\* A slip: the capabilities of a rule are kept only while none is known yet.
EntryInsertAll_IfEmpty(map, ks, v) ==
    IF DOMAIN map = {} THEN [k \in ks |-> {v}] ELSE map

\* for &capability in capabilities { caps.entry(capability).or_default().insert(reason) }
EntryInsertAll(map, ks, v) ==
    [k \in (DOMAIN map) \cup ks |->
        (IF k \in DOMAIN map THEN map[k] ELSE {}) \cup (IF k \in ks THEN {v} ELSE {})]

\* A slip: the standard crates are not told apart from external crates.
unmatched_path_AssumeExternal(d, crate_name, path) ==
    [d EXCEPT !.unresolved_crates = EntryInsert(@, crate_name, path)]

\* add_symbol on a path that no rule matches, once its crate name is known
unmatched_path(d, crate_name, path) ==
    IF is_standard_crate(crate_name)
    THEN [d EXCEPT !.caps = EntryInsert(@, "Unknown",
                      [tag |-> "UmatchedStandardPath", path |-> path])]
    ELSE [d EXCEPT !.unresolved_crates = EntryInsert(@, crate_name, path)]

\* the body of the loop of DeducedCaps::add_symbol for one FunctionOrPath:
\* Ok(the DeducedCaps after it) or Err (the `?` on CrateName::new)
add_function_or_path(d, rs, symbol, path) ==
    IF path.tag = "Function"
    THEN LET capabilities == match_symbol(rs, trim_start_underscores(path.name))
         IN  IF capabilities.some
             THEN Ok([d EXCEPT !.caps = EntryInsertAll(@, capabilities.val,
                              [tag |-> "SymbolMatchedRule", symbol |-> symbol])])
             ELSE Ok([d EXCEPT !.caps = EntryInsert(@, "Unknown",
                              [tag |-> "UnmatchedSymbol", symbol |-> symbol])])
    ELSE LET capabilities == match_symbol(rs, path.path)
             crate_name == CrateName_new(segments(path.path)[1])
         IN  IF capabilities.some
             THEN Ok([d EXCEPT !.caps = EntryInsertAll(@, capabilities.val,
                              [tag |-> "PathMatchedRule", path |-> path.path])])
             ELSE IF ~crate_name.ok THEN Err
             ELSE Ok(unmatched_path(d, crate_name.val, path.path))

RECURSIVE add_paths(_, _, _, _)
\* the `?` of one turn of the loop of add_symbol, then the remaining turns
add_paths_next(r, rs, symbol, rest) ==
    IF r.ok THEN add_paths(r.val, rs, symbol, rest) ELSE Err

\* for path in symbol.paths() { ... }
add_paths(d, rs, symbol, paths) ==
    IF paths = <<>> THEN Ok(d)
    ELSE add_paths_next(add_function_or_path(d, rs, symbol, Head(paths)),
                        rs, symbol, Tail(paths))

\* Symbol::paths
Symbol_paths(symbol) == from_demangled(symbol)

\* how a call of add_symbol ends: status "ok" with the DeducedCaps after it,
\* or "err"
add_symbol_result(r) ==
    IF r.ok THEN [status |-> "ok", slf |-> r.val] ELSE [status |-> "err"]

\* add_symbol once symbol.paths() has returned or panicked
add_symbol_paths(d, rs, symbol, paths) ==
    IF paths.panic THEN [status |-> "panic"]
    ELSE add_symbol_result(add_paths(d, rs, symbol, paths.paths))

\* DeducedCaps::add_symbol on the symbol whose demangled name is `symbol`:
\* status "ok" with the DeducedCaps after it, "err" or "panic"
add_symbol(d, rs, symbol) == add_symbol_paths(d, rs, symbol, Symbol_paths(symbol))

\* DeducedCaps::from_symbols as a function of its arguments
RECURSIVE from_symbols_loop(_, _, _)
from_symbols_loop(d, rs, syms) ==
    IF syms = <<>> THEN [status |-> "ok", slf |-> d]
    ELSE LET r == add_symbol(d, rs, Head(syms))
         IN  IF r.status = "ok" THEN from_symbols_loop(r.slf, rs, Tail(syms)) ELSE r

from_symbols(rs, syms) == from_symbols_loop(EmptyDeducedCaps, rs, syms)

\* ------------------------------------------------------------------------
\* The variables of a component that a specification does not run

MatchIdle == query = <<>> /\ matched = [done |-> FALSE]
DeducerIdle ==
    input = <<>> /\ symbols = <<>> /\ slf = EmptyDeducedCaps /\ outcome = "idle"
FloodIdle == graph = {} /\ kind = <<>> /\ queue = <<>> /\ fpc = "idle" /\ steps = 0
CheckerIdle ==
    checker = <<>> /\ artifacts = 0 /\ crate_caps = <<>> /\ last = [op |-> "none"]
RunIdle == pc = "idle" /\ trace = <<>>
SymbolIdle == symbol_name = <<>> /\ decoding = [stage |-> "none"]
MetaIdle == metadata = <<>> /\ built = [pc |-> "idle"]
AnalyzeIdle == crate_infos = None /\ num_artifacts_passed = 0
UsageIdle == usage = [op |-> "none"]

\* ------------------------------------------------------------------------
\* SpecMatch: one call of Rules::match_symbol

InitMatch ==
    /\ rules \in SeqsUpTo(RulePool, MaxRules)
    /\ query \in QueryPool
    /\ matched = [done |-> FALSE]
    /\ DeducerIdle /\ FloodIdle /\ CheckerIdle /\ RunIdle /\ SymbolIdle
    /\ MetaIdle /\ AnalyzeIdle /\ UsageIdle

MatchSymbol ==
    /\ ~matched.done
    /\ matched' = [done |-> TRUE, result |-> match_symbol(rules, query)]
    /\ UNCHANGED <<rules, query, deducerVars, floodVars, checkerVars, runVars, symbolVars,
                   metaVars, analyzeVars, usageVars>>

NextMatch == MatchSymbol

SpecMatch == InitMatch /\ [][NextMatch]_vars

\* ------------------------------------------------------------------------
\* SpecDeducer: DeducedCaps::from_symbols, one symbol per step

InitDeducer ==
    /\ rules \in DeducerTables
    /\ input \in SeqsUpTo(SymbolPool, MaxSymbols)
    /\ symbols = input
    /\ slf = EmptyDeducedCaps
    /\ outcome = "running"
    /\ MatchIdle /\ FloodIdle /\ CheckerIdle /\ RunIdle /\ SymbolIdle
    /\ MetaIdle /\ AnalyzeIdle /\ UsageIdle

\* the `?` on add_symbol: the loop goes on, or from_symbols ends with the
\* error (or the panic unwinds)
AddSymbolReturns(r) ==
    /\ outcome' = IF r.status = "ok" THEN "running" ELSE r.status
    /\ slf' = IF r.status = "ok" THEN r.slf ELSE slf

\* one turn of the loop of from_symbols: slf.add_symbol(rules, &symbol)?
AddSymbol ==
    /\ outcome = "running"
    /\ symbols # <<>>
    /\ AddSymbolReturns(add_symbol(slf, rules, Head(symbols)))
    /\ symbols' = Tail(symbols)
    /\ UNCHANGED <<rules, input, matchVars, floodVars, checkerVars, runVars, symbolVars,
                   metaVars, analyzeVars, usageVars>>

\* the loop is over: Ok(slf)
FromSymbolsReturn ==
    /\ outcome = "running"
    /\ symbols = <<>>
    /\ outcome' = "ok"
    /\ UNCHANGED <<rules, input, symbols, slf, matchVars, floodVars, checkerVars, runVars, symbolVars,
                   metaVars, analyzeVars, usageVars>>

NextDeducer == AddSymbol \/ FromSymbolsReturn

SpecDeducer == InitDeducer /\ [][NextDeducer]_vars

\* ------------------------------------------------------------------------
\* build_graph_analysis.rs

\* enum DepKind
DepKinds == {"Unknown", "Normal", "Build", "Dev", "ProcMacro"}

\* A slip: the last arm hands on the kind of the dependent.
new_kind_UnknownInherits(dep_kind, crate_kind) ==
    IF crate_kind = "ProcMacro" THEN "ProcMacro"
    ELSE IF dep_kind = "Normal" THEN crate_kind
    ELSE IF dep_kind = "Build" THEN "Build"
    ELSE IF dep_kind = "Dev" THEN "Dev"
    ELSE IF dep_kind = "ProcMacro" THEN "ProcMacro"
    ELSE crate_kind

\* A slip: a Build edge hands on the kind of the dependent, as a Normal edge does.
new_kind_BuildInherits(dep_kind, crate_kind) ==
    IF crate_kind = "ProcMacro" THEN "ProcMacro"
    ELSE IF dep_kind \in {"Normal", "Build"} THEN crate_kind
    ELSE IF dep_kind = "Dev" THEN "Dev"
    ELSE IF dep_kind = "ProcMacro" THEN "ProcMacro"
    ELSE "Unknown"

\* A slip: a Normal edge hands on Normal, whatever the dependent is.
new_kind_NormalEdgeNormal(dep_kind, crate_kind) ==
    IF crate_kind = "ProcMacro" THEN "ProcMacro"
    ELSE IF dep_kind = "Normal" THEN "Normal"
    ELSE IF dep_kind = "Build" THEN "Build"
    ELSE IF dep_kind = "Dev" THEN "Dev"
    ELSE IF dep_kind = "ProcMacro" THEN "ProcMacro"
    ELSE "Unknown"

\* A slip: a Dev edge hands on the kind of the dependent, as a Normal edge does.
new_kind_DevInherits(dep_kind, crate_kind) ==
    IF crate_kind = "ProcMacro" THEN "ProcMacro"
    ELSE IF dep_kind \in {"Normal", "Dev"} THEN crate_kind
    ELSE IF dep_kind = "Build" THEN "Build"
    ELSE IF dep_kind = "ProcMacro" THEN "ProcMacro"
    ELSE "Unknown"

\* the match of dependency_kind_from_edge_and_dependent, arm by arm
new_kind(dep_kind, crate_kind) ==
    IF crate_kind = "ProcMacro" THEN "ProcMacro"
    ELSE IF dep_kind = "Normal" THEN crate_kind
    ELSE IF dep_kind = "Build" THEN "Build"
    ELSE IF dep_kind = "Dev" THEN "Dev"
    ELSE IF dep_kind = "ProcMacro" THEN "ProcMacro"
    ELSE "Unknown"

\* dependency_kind_from_edge_and_dependent: the kinds an edge hands to the
\* dependency, given the kinds of the dependent
dependency_kind_from_edge_and_dependent(edge_kind, dependent_kind) ==
    {new_kind(dep_kind, crate_kind) : dep_kind \in edge_kind, crate_kind \in dependent_kind}

\* A slip: the dependency is queued whenever the edge hands it any kind.
needs_visit_Always(new_kinds, current_kinds) == new_kinds # {}

\* A slip: the dependency is queued whenever the kinds handed to it are not
\* the very kinds it has.
needs_visit_Unequal(new_kinds, current_kinds) == new_kinds # current_kinds

\* !missing_kinds.is_empty()
needs_visit(new_kinds, current_kinds) == new_kinds \ current_kinds # {}

\* A slip: the kinds of the dependency are assigned, not extended.
extend_kind_Assign(current_kinds, new_kinds) == new_kinds

\* A slip: the kinds of the dependency are kept once it has any.
extend_kind_KeepFirst(current_kinds, new_kinds) ==
    IF current_kinds = {} THEN new_kinds ELSE current_kinds

\* self.graph[dependency_idx].kind.extend(missing_kinds)
extend_kind(current_kinds, new_kinds) ==
    current_kinds \cup (new_kinds \ current_kinds)

\* the `for (dependency_idx, edge_data) in node_edges` loop of
\* compute_dependency_kinds: the node kinds and the queue after it
RECURSIVE visit_edges(_, _, _, _)
visit_edges(kinds, q, node_kind, node_edges) ==
    IF node_edges = <<>> THEN [kind |-> kinds, queue |-> q]
    ELSE LET edge == Head(node_edges)
             new_kinds == dependency_kind_from_edge_and_dependent(edge.kind, node_kind)
         IN  IF needs_visit(new_kinds, kinds[edge.to])
             THEN visit_edges(
                    [kinds EXCEPT ![edge.to] = extend_kind(@, new_kinds)],
                    Append(q, edge.to), node_kind, Tail(node_edges))
             ELSE visit_edges(kinds, q, node_kind, Tail(node_edges))

\* every order in which the members of a finite set can be met
OrdersOf(S) ==
    {f \in [1..Cardinality(S) -> S] : \A i, j \in 1..Cardinality(S) : f[i] = f[j] => i = j}

\* the packages of the graph: package_to_node.keys()
NodesOf(g) ==
    g.starting_packages \cup g.proc_macros
        \cup {e.from : e \in g.edges} \cup {e.to : e \in g.edges}

\* DepGraph::from_metadata gives every starting package the kind Normal
\* (insert_node) and every other package no kind (node_of); the tests also
\* insert packages with the kind ProcMacro
SeededKind(g) ==
    [n \in NodesOf(g) |->
        IF n \in g.starting_packages THEN {"Normal"}
        ELSE IF n \in g.proc_macros THEN {"ProcMacro"}
        ELSE {}]

\* the packages that from_metadata visits from the starting packages
RECURSIVE Visited(_, _)
Visited(edges, seen) ==
    LET next == seen \cup {e.to : e \in {d \in edges : d.from \in seen}}
    IN  IF next = seen THEN seen ELSE Visited(edges, next)

\* ------------------------------------------------------------------------
\* Inputs of the flood fill

MaxEdges == 2       \* the most dependency edges of a graph
MaxSteps == 16      \* the most turns of the flood-fill loop in one run

PackageIds == {"app", "lib", "dep"}
StartingPackages == {{"app"}, {"app", "lib"}}

EdgePool ==
    {[from |-> a, to |-> b, kind |-> {k}] : a \in PackageIds, b \in PackageIds, k \in DepKinds}

\* the sets of at most n edges
RECURSIVE EdgeSets(_)
EdgeSets(n) ==
    IF n = 0 THEN {{}}
    ELSE EdgeSets(n - 1) \cup {E \cup {e} : E \in EdgeSets(n - 1), e \in EdgePool}

\* the graphs from_metadata can build: edges leave visited packages only
DepGraphs ==
    {g \in [edges : EdgeSets(MaxEdges),
            starting_packages : StartingPackages,
            proc_macros : {{}}] :
        \A e \in g.edges : e.from \in Visited(g.edges, g.starting_packages)}

\* the graphs the tests build with insert_node and add_edge: one package
\* inserted with the kind Normal, one with the kind ProcMacro
TestGraphs ==
    {g \in [edges : EdgeSets(MaxEdges),
            starting_packages : {{"app"}},
            proc_macros : {{"lib"}}] :
        \A e \in g.edges : e.from \in Visited(g.edges, g.starting_packages)}

\* ------------------------------------------------------------------------
\* SpecFlood: DepGraph::compute_dependency_kinds, one queue entry per step

InitFlood ==
    /\ graph \in DepGraphs \cup TestGraphs
    /\ kind = SeededKind(graph)
    /\ queue = <<>>
    /\ fpc = "seed"
    /\ steps = 0
    /\ rules = <<>> /\ MatchIdle /\ DeducerIdle /\ CheckerIdle /\ RunIdle /\ SymbolIdle
    /\ MetaIdle /\ AnalyzeIdle /\ UsageIdle

\* for &node_idx in self.package_to_node.values(): the nodes that have a
\* kind are queued in the iteration order of the HashMap
SeedQueue ==
    /\ fpc = "seed"
    /\ \E order \in OrdersOf({n \in DOMAIN kind : kind[n] # {}}) : queue' = order
    /\ fpc' = "loop"
    /\ UNCHANGED <<graph, kind, steps, rules, matchVars, deducerVars, checkerVars, runVars, symbolVars,
                   metaVars, analyzeVars, usageVars>>

\* what one turn of the loop leaves behind
VisitReturns(r) == kind' = r.kind /\ queue' = r.queue

\* one turn of `while let Some(node_idx) = queue.pop_front()`
VisitNode ==
    /\ fpc = "loop"
    /\ queue # <<>>
    /\ steps < MaxSteps
    /\ \E node_edges \in OrdersOf({e \in graph.edges : e.from = Head(queue)}) :
          VisitReturns(visit_edges(kind, Tail(queue), kind[Head(queue)], node_edges))
    /\ steps' = steps + 1
    /\ UNCHANGED <<graph, fpc, rules, matchVars, deducerVars, checkerVars, runVars, symbolVars,
                   metaVars, analyzeVars, usageVars>>

\* the queue is empty: compute_dependency_kinds returns
FloodReturn ==
    /\ fpc = "loop"
    /\ queue = <<>>
    /\ fpc' = "done"
    /\ UNCHANGED <<graph, kind, queue, steps, rules, matchVars, deducerVars, checkerVars, runVars, symbolVars,
                   metaVars, analyzeVars, usageVars>>

NextFlood == SeedQueue \/ VisitNode \/ FloodReturn

SpecFlood == InitFlood /\ [][NextFlood]_vars

\* the loop is sequential code: a turn that can be taken is taken
SpecFloodLive == SpecFlood /\ WF_vars(NextFlood)

\* ------------------------------------------------------------------------
\* checker.rs

\* A slip: the catch-all is filtered like any other capability.
filter_capabilities_NoAbsorb(actual_caps, allowed_caps) == actual_caps \ allowed_caps

\* filter_capabilities (Any is the catch-all of the Capability enum that
\* checker.rs is written against)
filter_capabilities(actual_caps, allowed_caps) ==
    IF "Any" \in allowed_caps THEN {}
    ELSE IF "Any" \in actual_caps THEN {"Any"}
    ELSE {cap \in actual_caps : cap \notin allowed_caps}

\* DeducedCapabilities::default(), with the fields add_artifact reads
DefaultDeducedCapabilities ==
    [own_caps |-> <<>>, known_crates |-> <<>>, unknown_crates |-> <<>>,
     unknown_symbols |-> {}]

\* known_crates.values().flatten().copied().collect()
all_crate_deps(deduced_caps) ==
    UNION {deduced_caps.known_crates[c] : c \in DOMAIN deduced_caps.known_crates}

\* DeducedCapabilities::total_capabilities: the own capabilities and those
\* of the known crates, collapsed to the catch-all when it is among them
total_capabilities(deduced_caps) ==
    IF "Any" \in (DOMAIN deduced_caps.own_caps) \cup all_crate_deps(deduced_caps)
    THEN {"Any"}
    ELSE (DOMAIN deduced_caps.own_caps) \cup all_crate_deps(deduced_caps)

\* the else-branch of `if true` in add_artifact: the unknown crates, the
\* crate itself left out, are taken away and those with stored Lib
\* capabilities become known crates with these capabilities
resolve_unknown_crates(crate_caps_, crate_name, deduced_caps) ==
    LET resolved == {dep \in (DOMAIN deduced_caps.unknown_crates) \ {crate_name} :
                        dep \in DOMAIN crate_caps_ /\ "Lib" \in DOMAIN crate_caps_[dep]}
    IN  [deduced_caps EXCEPT
            !.unknown_crates = <<>>,
            !.known_crates =
                [dep \in (DOMAIN @) \cup resolved |->
                    (IF dep \in DOMAIN @ THEN @[dep] ELSE {})
                    \cup (IF dep \in resolved
                          THEN total_capabilities(crate_caps_[dep]["Lib"]) ELSE {})]]

\* A slip: the unknown crates are left as the deducer found them.
forget_or_resolve_Keep(crate_caps_, crate_name, deduced_caps) == deduced_caps

\* `if true { deduced_caps.unknown_crates.clear(); } else { ... }`
forget_or_resolve(crate_caps_, crate_name, deduced_caps) ==
    IF TRUE
    THEN [deduced_caps EXCEPT !.unknown_crates = <<>>]
    ELSE resolve_unknown_crates(crate_caps_, crate_name, deduced_caps)

\* A slip: BuildRs is put among the own capabilities before they are stored.
store_caps_Marked(crate_caps_, crate_name, kind_, deduced_caps) ==
    [c \in (DOMAIN crate_caps_) \cup {crate_name} |->
        IF c = crate_name
        THEN [k \in (IF c \in DOMAIN crate_caps_ THEN DOMAIN crate_caps_[c] ELSE {})
                    \cup {kind_} |->
                IF k = kind_
                THEN [deduced_caps EXCEPT
                        !.own_caps = IF "BuildRs" \in DOMAIN @ THEN @
                                     ELSE @ @@ ("BuildRs" :> {})]
                ELSE crate_caps_[c][k]]
        ELSE crate_caps_[c]]

\* output.crate_caps.entry(crate_name).or_default().insert(kind, deduced_caps)
store_caps(crate_caps_, crate_name, kind_, deduced_caps) ==
    [c \in (DOMAIN crate_caps_) \cup {crate_name} |->
        IF c = crate_name
        THEN [k \in (IF c \in DOMAIN crate_caps_ THEN DOMAIN crate_caps_[c] ELSE {})
                    \cup {kind_} |->
                IF k = kind_ THEN deduced_caps ELSE crate_caps_[c][k]]
        ELSE crate_caps_[c]]

\* has_build_rs: the metadata lists a custom-build target for the package
has_build_rs(chk, package_name) == package_name \in chk.build_rs

\* if has_build_rs(package) { own_caps.entry(Capability::BuildRs).or_default(); }
mark_build_rs(deduced_caps, build_rs) ==
    IF build_rs /\ "BuildRs" \notin DOMAIN deduced_caps.own_caps
    THEN [deduced_caps EXCEPT !.own_caps = @ @@ ("BuildRs" :> {})]
    ELSE deduced_caps

\* the two places where add_artifact words the filtered capabilities: those
\* of the dependencies (own = FALSE) and the total ones (own = TRUE);
\* printed = FALSE is the early `return Ok(false)`
report_filtered(filtered_caps, show_empty, own) ==
    IF filtered_caps = {}
    THEN IF show_empty THEN [printed |-> TRUE, info |-> "none", caps |-> {}]
         ELSE [printed |-> FALSE]
    ELSE IF ~own
    THEN [printed |-> TRUE, info |-> "because of dependencies", caps |-> filtered_caps]
    ELSE IF "Any" \in filtered_caps
    THEN [printed |-> TRUE, info |-> "Any because of dependency on", caps |-> {"Any"}]
    ELSE [printed |-> TRUE, info |-> "capabilities", caps |-> filtered_caps]

\* `let info = ...` of add_artifact and the println! after it
report(deduced_caps, allowed_caps, show_empty) ==
    IF deduced_caps.unknown_symbols # {}
    THEN [printed |-> TRUE, info |-> "Any because of unknown symbols", caps |-> {"Any"}]
    ELSE IF DOMAIN deduced_caps.own_caps = {}
    THEN report_filtered(filter_capabilities(all_crate_deps(deduced_caps), allowed_caps),
                         show_empty, FALSE)
    ELSE IF "Any" \in DOMAIN deduced_caps.own_caps
    THEN [printed |-> TRUE, info |-> "Any because of", caps |-> {"Any"}]
    ELSE report_filtered(filter_capabilities(total_capabilities(deduced_caps), allowed_caps),
                         show_empty, TRUE)

\* CratePattern::matches, "*" being CratePattern::Any
CratePattern_matches(pattern, crate_name) == pattern = "*" \/ pattern = crate_name

\* WorkspaceConfig::crate_caps: what the rules of the config grant the crate
config_crate_caps(config, crate_name) ==
    UNION {config[i].caps : i \in
            {j \in 1..Len(config) :
                \E pattern \in config[j].crates : CratePattern_matches(pattern, crate_name)}}

\* Checker::add_artifact once the crate name is valid and the capabilities
\* of the binary were deduced: what is stored, reported and returned; own
\* are the keys of deduced_caps.own_caps when the report is written
add_artifact_known(chk, crate_caps_, crate_name, artifact_kind, deduced_caps, build_rs) ==
    IF artifact_kind \in {"CustomBuild", "ProcMacro"}
    THEN [result |-> "Ok", printed |-> FALSE, stored |-> FALSE, own |-> {},
          crate_caps |-> crate_caps_]
    ELSE [result |-> "Ok", stored |-> TRUE,
          crate_caps |-> store_caps(crate_caps_, crate_name, artifact_kind,
                            forget_or_resolve(crate_caps_, crate_name, deduced_caps)),
          own |-> DOMAIN mark_build_rs(
                            forget_or_resolve(crate_caps_, crate_name, deduced_caps),
                            build_rs).own_caps]
         @@ report(mark_build_rs(forget_or_resolve(crate_caps_, crate_name, deduced_caps),
                                 build_rs),
                   config_crate_caps(chk.config, crate_name), chk.show_empty)

\* add_artifact after `CrateName::new(package.name.to_string())?`
add_artifact_named(chk, crate_caps_, crate_name, artifact_kind, deduced_caps, build_rs) ==
    IF ~crate_name.ok \/ ~deduced_caps.ok
    THEN [result |-> "Err", printed |-> FALSE, stored |-> FALSE, own |-> {},
          crate_caps |-> crate_caps_]
    ELSE add_artifact_known(chk, crate_caps_, crate_name.val, artifact_kind,
                            deduced_caps.val, build_rs)

\* Checker::add_artifact; deduced_caps is what deduce_caps_of_binary returns
\* for the file of the artifact
add_artifact(chk, crate_caps_, package_name, artifact_kind, deduced_caps) ==
    add_artifact_named(chk, crate_caps_, CrateName_new(package_name), artifact_kind,
                       deduced_caps, has_build_rs(chk, package_name))

\* the display filter of the capabilities of a crate: once a critical
\* capability is among them only the critical ones are shown
displayed_caps(caps) ==
    IF \E c \in caps : is_critical(c) THEN {c \in caps : is_critical(c)} ELSE caps

\* ------------------------------------------------------------------------
\* Inputs of the checker

PackageNames == {<<"a">>, <<"b">>}
TargetKinds == {"Lib", "Bin", "CustomBuild", "ProcMacro"}

\* the Capability enum that checker.rs is written against, in part
CheckerCapabilities == {"BuildRs", "Alloc", "Panic", "Net", "FS", "Any"}

\* what deduce_caps_of_binary returns: an error, or capabilities with no
\* known crates yet
DeducedPool ==
    { Err,
      Ok(DefaultDeducedCapabilities),
      Ok([DefaultDeducedCapabilities EXCEPT !.own_caps = "Net" :> {"symbol"}]),
      Ok([DefaultDeducedCapabilities EXCEPT !.unknown_crates = <<"b">> :> {"symbol"}]),
      Ok([DefaultDeducedCapabilities EXCEPT !.unknown_crates = <<"a">> :> {"symbol"}]),
      Ok([DefaultDeducedCapabilities EXCEPT !.unknown_symbols = {"symbol"}]) }

\* cargo-caps.eon
ConfigPool ==
    { <<>>,
      << [caps |-> {"Alloc", "Panic"}, crates |-> {"*"}] >>,
      << [caps |-> {"Any"}, crates |-> {<<"a">>}] >> }

MaxArtifacts == 2   \* the most artifacts of one build

\* ------------------------------------------------------------------------
\* SpecChecker: the artifacts of a build handed to Checker::add_artifact

InitChecker ==
    /\ checker \in [config : ConfigPool, show_empty : BOOLEAN,
                    build_rs : {{}, {<<"a">>}}]
    /\ artifacts = 0
    /\ crate_caps = <<>>
    /\ last = [op |-> "none"]
    /\ rules = <<>> /\ MatchIdle /\ DeducerIdle /\ FloodIdle /\ RunIdle /\ SymbolIdle
    /\ MetaIdle /\ AnalyzeIdle /\ UsageIdle

\* the output and the return value of the call
AddArtifactReturns(package_name, artifact_kind, deduced_caps, r) ==
    /\ crate_caps' = r.crate_caps
    /\ last' = [op |-> "add_artifact", package_name |-> package_name,
                artifact_kind |-> artifact_kind, deduced_caps |-> deduced_caps,
                result |-> r.result, printed |-> r.printed, stored |-> r.stored,
                own |-> r.own]

\* one CompilerArtifact message; an Err of an earlier one has ended the run
AddArtifact ==
    /\ IF last.op = "none" THEN TRUE ELSE last.result = "Ok"
    /\ artifacts < MaxArtifacts
    /\ \E package_name \in PackageNames, artifact_kind \in TargetKinds,
          deduced_caps \in DeducedPool :
          AddArtifactReturns(package_name, artifact_kind, deduced_caps,
              add_artifact(checker, crate_caps, package_name, artifact_kind,
                           deduced_caps))
    /\ artifacts' = artifacts + 1
    /\ UNCHANGED <<checker, rules, matchVars, deducerVars, floodVars, runVars, symbolVars,
                   metaVars, analyzeVars, usageVars>>

NextChecker == AddArtifact

SpecChecker == InitChecker /\ [][NextChecker]_vars

\* ------------------------------------------------------------------------
\* SpecFilter: filter_capabilities on every pair of capability sets

InitFilter ==
    /\ CheckerIdle
    /\ rules = <<>> /\ MatchIdle /\ DeducerIdle /\ FloodIdle /\ RunIdle /\ SymbolIdle
    /\ MetaIdle /\ AnalyzeIdle /\ UsageIdle

FilterCapabilities ==
    /\ last.op = "none"
    /\ \E actual_caps \in SUBSET CheckerCapabilities,
          allowed_caps \in SUBSET CheckerCapabilities :
          last' = [op |-> "filter_capabilities", actual_caps |-> actual_caps,
                   allowed_caps |-> allowed_caps,
                   result |-> filter_capabilities(actual_caps, allowed_caps)]
    /\ UNCHANGED <<checker, artifacts, crate_caps, rules, matchVars, deducerVars, floodVars, runVars, symbolVars,
                   metaVars, analyzeVars, usageVars>>

NextFilter == FilterCapabilities

SpecFilter == InitFilter /\ [][NextFilter]_vars

\* ------------------------------------------------------------------------
\* SpecDisplay: the display filter on every capability set

InitDisplay ==
    /\ CheckerIdle
    /\ rules = <<>> /\ MatchIdle /\ DeducerIdle /\ FloodIdle /\ RunIdle /\ SymbolIdle
    /\ MetaIdle /\ AnalyzeIdle /\ UsageIdle

DisplayCaps ==
    /\ last.op = "none"
    /\ \E caps \in SUBSET Capabilities :
          last' = [op |-> "displayed_caps", caps |-> caps,
                   result |-> displayed_caps(caps)]
    /\ UNCHANGED <<checker, artifacts, crate_caps, rules, matchVars, deducerVars, floodVars, runVars, symbolVars,
                   metaVars, analyzeVars, usageVars>>

NextDisplay == DisplayCaps

SpecDisplay == InitDisplay /\ [][NextDisplay]_vars

\* ------------------------------------------------------------------------
\* Rules::match_symbol picks the longest matching pattern

\* the (rule index, pattern) pairs of the table that match the symbol
MatchingPatterns(rs, symbol) ==
    {rm \in UNION {{<<i, m>> : m \in rs[i].pattern} : i \in 1..Len(rs)} :
        PatternMatches(rm[2], symbol)}

\* C1: match_symbol returns None when no pattern of the table matches the
\* path, and otherwise the capability set of a rule that owns a matching
\* pattern of maximal length; so of two matching patterns of different
\* length the rule of the shorter one never wins over the longer one.
C1_LongestMatch ==
    matched.done =>
        LET M == MatchingPatterns(rules, query)
            best_match == BestOverRules(None, rules, 1, query)
        IN  IF M = {} THEN matched.result = None /\ ~best_match.some
            ELSE /\ matched.result.some
                 /\ best_match.some
                 /\ \A rm \in M : Len(rm[2].text) <= best_match.val.specificity
                 /\ \E rm \in M : /\ rm[1] = best_match.val.rule
                                  /\ Len(rm[2].text) = best_match.val.specificity
                 /\ matched.result.val = rules[best_match.val.rule].caps

\* a later rule owns a shorter matching pattern than an earlier rule, and the
\* two rules grant different capabilities
C1_Witness ==
    /\ matched.done
    /\ \E rm \in MatchingPatterns(rules, query), rn \in MatchingPatterns(rules, query) :
          /\ rm[1] < rn[1]
          /\ Len(rm[2].text) > Len(rn[2].text)
          /\ rules[rm[1]].caps # rules[rn[1]].caps
          /\ matched.result = Some(rules[rm[1]].caps)

\* ------------------------------------------------------------------------
\* What add_symbol records for a path no rule matches

\* the symbols of the list that add_symbol has returned Ok for
Processed ==
    IF outcome \in {"running", "ok"}
    THEN SubSeq(input, 1, Len(input) - Len(symbols))
    ELSE SubSeq(input, 1, Len(input) - Len(symbols) - 1)

\* the paths of a symbol that no rule of the table matches
UnmatchedPaths(symbol) ==
    IF Symbol_paths(symbol).panic THEN {}
    ELSE {Symbol_paths(symbol).paths[i].path : i \in
            {j \in 1..Len(Symbol_paths(symbol).paths) :
                /\ Symbol_paths(symbol).paths[j].tag = "RustPath"
                /\ ~match_symbol(rules, Symbol_paths(symbol).paths[j].path).some}}

\* every reason recorded for any capability
AllReasons(d) == UNION {d.caps[c] : c \in DOMAIN d.caps}

RecordedUnresolved(d, key, path) ==
    key \in DOMAIN d.unresolved_crates /\ path \in d.unresolved_crates[key]

\* C2 (as the code has it): of a path of two or more segments that no rule
\* matches, the first segment is read as a crate name ('-' becoming '_').
\* When that name is std, core or alloc the path is recorded as a reason for
\* the Unknown capability and not as unresolved; for any other valid name
\* the path is recorded under unresolved_crates[name] and as a reason for no
\* capability; when the segment is not a valid crate name add_symbol returns
\* the error and the symbol is not among those processed.
C2_RuleMiss ==
    \A k \in 1..Len(Processed) : \A path \in UnmatchedPaths(Processed[k]) :
        LET crate_name == CrateName_new(segments(path)[1])
        IN  /\ crate_name.ok
            /\ Len(segments(path)) >= 2
            /\ IF is_standard_crate(crate_name.val)
               THEN /\ "Unknown" \in DOMAIN slf.caps
                    /\ [tag |-> "UmatchedStandardPath", path |-> path]
                          \in slf.caps["Unknown"]
                    /\ ~RecordedUnresolved(slf, crate_name.val, path)
               ELSE /\ RecordedUnresolved(slf, crate_name.val, path)
                    /\ \A r \in AllReasons(slf) :
                          /\ r.tag \in {"PathMatchedRule", "UmatchedStandardPath"}
                                => r.path # path
                          /\ r.tag \in {"SymbolMatchedRule", "UnmatchedSymbol"}
                                => r.symbol # Processed[k]

\* both branches have been taken: a std path and a path of a crate whose
\* name holds a '-' were processed with no rule for either
C2_Witness ==
    /\ outcome = "ok"
    /\ \E k \in 1..Len(Processed) : \E path \in UnmatchedPaths(Processed[k]) :
          is_standard_crate(CrateName_new(segments(path)[1]).val)
    /\ \E k \in 1..Len(Processed) : \E path \in UnmatchedPaths(Processed[k]) :
          /\ ~is_standard_crate(CrateName_new(segments(path)[1]).val)
          /\ CrateName_new(segments(path)[1]).val # segments(path)[1]

\* C2 as stated: every processed path that no rule matches is recorded under
\* the unresolved crates keyed by its first segment, and is a reason for no
\* capability.
C2_AsStated ==
    \A k \in 1..Len(Processed) : \A path \in UnmatchedPaths(Processed[k]) :
        /\ RecordedUnresolved(slf, segments(path)[1], path)
        /\ \A r \in AllReasons(slf) :
              r.tag \in {"PathMatchedRule", "UmatchedStandardPath"} => r.path # path

\* ------------------------------------------------------------------------
\* from_symbols and the order of the symbols

\* every ordering of the symbols of a list
Orderings(syms) ==
    {[i \in 1..Len(syms) |-> syms[f[i]]] : f \in Permutations(1..Len(syms))}

\* the symbols recorded as unknown: the UnmatchedSymbol reasons of Unknown
unknown_symbols(d) ==
    IF "Unknown" \in DOMAIN d.caps
    THEN {r.symbol : r \in {q \in d.caps["Unknown"] : q.tag = "UnmatchedSymbol"}}
    ELSE {}

\* C8: when from_symbols returns Ok for a list of symbols, it returns Ok for
\* every ordering of that list, with the same set of deduced capabilities,
\* the same set of unresolved crates and the same set of unknown symbols.
C8_OrderIndependent ==
    outcome = "ok" =>
        \A perm \in Orderings(input) :
            LET other == from_symbols(rules, perm)
            IN  /\ other.status = "ok"
                /\ DOMAIN other.slf.caps = DOMAIN slf.caps
                /\ DOMAIN other.slf.unresolved_crates = DOMAIN slf.unresolved_crates
                /\ unknown_symbols(other.slf) = unknown_symbols(slf)

\* two different symbols were given, the first one unknown and the second
\* one matched by a rule that grants a capability
C8_Witness ==
    /\ outcome = "ok"
    /\ Len(input) >= 2
    /\ input[1] # input[2]
    /\ unknown_symbols(slf) = {input[1]}
    /\ DOMAIN slf.caps \ {"Unknown"} # {}

\* ------------------------------------------------------------------------
\* from_symbols on symbols it cannot make sense of

\* C9 as stated: whatever the symbols are, from_symbols neither panics nor
\* returns an error.
C9_Total == outcome \notin {"err", "panic"}

\* ------------------------------------------------------------------------
\* The flood fill of the dependency kinds

\* C5: in every step of the flood fill every package keeps the kinds it had:
\* the kind set of a package after the step is a superset of the one before
\* it, the kinds it was seeded with included.
C5_Monotone ==
    [][/\ DOMAIN kind' = DOMAIN kind
       /\ \A n \in DOMAIN kind : kind[n] \subseteq kind'[n]]_vars

\* a starting package has gained a kind on top of the one it was seeded with
C5_Witness ==
    /\ fpc = "done"
    /\ \E n \in graph.starting_packages :
          "Normal" \in kind[n] /\ kind[n] # {"Normal"}

\* a cycle through two packages or a dependency of a package on itself
HasCycle(g) ==
    \E e \in g.edges : \E d \in g.edges : e.from = d.to /\ e.to = d.from

\* C6: on every graph, with or without cycles, the flood fill ends: the
\* queue runs empty and compute_dependency_kinds returns.
C6_Terminates == <>(fpc = "done" /\ queue = <<>>)

\* the flood fill has returned on a graph with a cycle, after a package of
\* the cycle was taken from the queue again
C6_Witness ==
    /\ fpc = "done"
    /\ HasCycle(graph)
    /\ steps > Cardinality(NodesOf(graph))

\* the least kinds closed under the edges of the graph, above a seeding
RECURSIVE FixedPoint(_, _)
FixedPoint(g, k) ==
    LET k2 == [n \in DOMAIN k |->
                k[n] \cup UNION {dependency_kind_from_edge_and_dependent(e.kind, k[e.from]) :
                                    e \in {d \in g.edges : d.to = n}}]
    IN  IF k2 = k THEN k ELSE FixedPoint(g, k2)

\* C7: whatever the order in which the seeded packages enter the queue and
\* the edges of a package are walked, the kinds at the end are the same:
\* the least fixed point above the seeding, which the graph alone decides.
C7_OrderIndependent ==
    fpc = "done" => kind = FixedPoint(graph, SeededKind(graph))

\* two seeded packages, queued second-first, and a package that two edges
\* give different kinds to
C7_Witness ==
    /\ fpc = "done"
    /\ Cardinality(graph.starting_packages) = 2
    /\ \E n \in DOMAIN kind : Cardinality(kind[n]) >= 2
    /\ steps >= 3

\* ------------------------------------------------------------------------
\* The capabilities a crate takes over from the crates it depends on

\* C3 as stated: when the artifact of a crate A with no capabilities of its
\* own, which names the crate B as unresolved, is processed after the Lib
\* artifact of B was stored with the capabilities {Net}, the capabilities
\* stored for A are exactly {Net}, with B as the known crate they come from.
C3_Inherits ==
    (/\ last.op = "add_artifact"
     /\ last.result = "Ok"
     /\ last.stored
     /\ DOMAIN last.deduced_caps.val.own_caps = {}
     /\ last.deduced_caps.val.unknown_symbols = {})
    => \A B \in DOMAIN last.deduced_caps.val.unknown_crates :
          (/\ B # CrateName_new(last.package_name).val
           /\ B \in DOMAIN crate_caps
           /\ "Lib" \in DOMAIN crate_caps[B]
           /\ (DOMAIN crate_caps[B]["Lib"].own_caps)
                  \cup all_crate_deps(crate_caps[B]["Lib"]) = {"Net"})
          => LET A == crate_caps[CrateName_new(last.package_name).val][last.artifact_kind]
             IN  /\ (DOMAIN A.own_caps) \cup all_crate_deps(A) = {"Net"}
                 /\ B \in DOMAIN A.known_crates
                 /\ A.known_crates[B] = {"Net"}

\* ------------------------------------------------------------------------
\* The catch-all in filter_capabilities

SoleEdges(g) ==
    {e \in g.edges :
        /\ e.to \notin g.starting_packages \cup g.proc_macros
        /\ e.from # e.to
        /\ \A d \in g.edges : d.to = e.to => d = e}

IsProcMacroUnit(g, p) ==
    \/ p \in g.proc_macros
    \/ /\ \E e \in g.edges : e.to = p
       /\ \A e \in g.edges : e.to = p => e.kind = {"ProcMacro"}

\* C13 as stated: when the flood fill has ended, every dependency reached
\* over an edge of kind ProcMacro or from a dependent that carries ProcMacro
\* carries ProcMacro; and a proc-macro package that a package of kind Normal
\* depends on carries ProcMacro and nothing else, and so does each package
\* that only a Normal edge from it leads to.
C13_ProcMacro ==
    fpc = "done" =>
        /\ \A e \in graph.edges : \A crate_kind \in kind[e.from] :
              (e.kind = {"ProcMacro"} \/ crate_kind = "ProcMacro")
                  => "ProcMacro" \in kind[e.to]
        /\ \A p \in NodesOf(graph) :
              (/\ IsProcMacroUnit(graph, p)
               /\ \E e \in graph.edges : e.to = p /\ "Normal" \in kind[e.from])
              => /\ kind[p] = {"ProcMacro"}
                 /\ \A d \in SoleEdges(graph) :
                       (d.from = p /\ d.kind = {"Normal"})
                           => kind[d.to] = {"ProcMacro"}

\* ------------------------------------------------------------------------
\* The unknown crates of an artifact that no artifact is stored for

\* what add_artifact has stored for the artifact of the last call
LastStored == crate_caps[CrateName_new(last.package_name).val][last.artifact_kind]

\* the unknown crates of the last artifact that nothing is stored for
NotAnalyzed == (DOMAIN last.deduced_caps.val.unknown_crates) \ DOMAIN crate_caps

\* C14 (as the code has it): when add_artifact has stored the capabilities
\* of an artifact, an unknown crate of the artifact that nothing is stored
\* for is forgotten: it is neither among the unknown crates nor among the
\* known crates of what is stored, and the own capabilities are stored as
\* they were deduced.
C14_Forgotten ==
    (last.op = "add_artifact" /\ last.result = "Ok" /\ last.stored)
    => /\ LastStored.own_caps = last.deduced_caps.val.own_caps
       /\ \A B \in NotAnalyzed :
            /\ B \notin DOMAIN LastStored.unknown_crates
            /\ B \notin DOMAIN LastStored.known_crates

\* an artifact that names the unknown crate b was stored while nothing was
\* stored for b
C14_Witness ==
    /\ last.op = "add_artifact" /\ last.result = "Ok" /\ last.stored
    /\ NotAnalyzed = {<<"b">>}
    /\ LastStored.unknown_crates = <<>>

\* C14 as stated: an unknown crate of the artifact that nothing is stored for
\* is still among the unknown crates of what add_artifact has stored.
C14_StaysUnresolved ==
    (last.op = "add_artifact" /\ last.result = "Ok" /\ last.stored)
    => \A B \in NotAnalyzed : B \in DOMAIN LastStored.unknown_crates

\* ------------------------------------------------------------------------
\* BuildRs and the stored capabilities

\* C15: whatever artifacts were processed, nothing that is stored for a
\* crate holds BuildRs, neither among the own capabilities nor among those
\* of its known crates; BuildRs is among the own capabilities of the
\* artifact when its report is written, after they were stored, exactly
\* when the package has a build script.
C15_NotContagious ==
    /\ \A c \in DOMAIN crate_caps : \A k \in DOMAIN crate_caps[c] :
          /\ "BuildRs" \notin DOMAIN crate_caps[c][k].own_caps
          /\ "BuildRs" \notin all_crate_deps(crate_caps[c][k])
    /\ (last.op = "add_artifact" /\ last.result = "Ok" /\ last.stored)
          => ("BuildRs" \in last.own <=> has_build_rs(checker, last.package_name))

\* the library of a, which has a build script, is stored, and then an
\* artifact of b that names a as an unknown crate
C15_Witness ==
    /\ last.op = "add_artifact" /\ last.result = "Ok" /\ last.stored
    /\ last.package_name = <<"b">>
    /\ <<"a">> \in DOMAIN last.deduced_caps.val.unknown_crates
    /\ has_build_rs(checker, <<"a">>)
    /\ <<"a">> \in DOMAIN crate_caps /\ "Lib" \in DOMAIN crate_caps[<<"a">>]
    /\ "BuildRs" \notin last.own

\* ------------------------------------------------------------------------
\* An artifact whose file cannot be read

\* C16 as stated: when deduce_caps_of_binary fails on the file of an
\* artifact, add_artifact does not return the error to the run, and the next
\* artifact of the build is still handed to add_artifact.
C16_RunGoesOn ==
    (last.op = "add_artifact" /\ ~last.deduced_caps.ok)
    => /\ last.result = "Ok"
       /\ (artifacts < MaxArtifacts => ENABLED AddArtifact)


\* ======================================================================
\* CheckCommand::execute (commands/check.rs): the order of a whole run
\* ======================================================================

\* Messages of the build that one run reads from cargo.
MaxMessages == 3

\* How often `ev` has happened so far.
Count(ev) == Cardinality({i \in DOMAIN trace : trace[i] = ev})

\* The messages read so far: compiler artifacts that analyze_artifact drops
\* or passes on, and every other message.
MessagesRead == Count("skipped") + Count("artifact")

InitRun ==
    /\ pc = "config" /\ trace = <<>>
    /\ rules = <<>> /\ MatchIdle /\ DeducerIdle /\ FloodIdle /\ CheckerIdle
    /\ SymbolIdle
    /\ MetaIdle /\ AnalyzeIdle /\ UsageIdle

\* execute, lines 55-64: the configuration is read, or the basics are allowed
\* when there is no file; a file that does not parse ends the run.
LoadConfig ==
    /\ pc = "config"
    /\ \E ok \in BOOLEAN :
        /\ pc' = IF ok THEN "metadata" ELSE "failed"
        /\ trace' = Append(trace, "config")
    /\ UNCHANGED <<rules, matchVars, deducerVars, floodVars, checkerVars, symbolVars,
                   metaVars, analyzeVars, usageVars>>

\* execute, line 66: `cargo metadata`.
gather_cargo_metadata ==
    /\ pc = "metadata"
    /\ \E ok \in BOOLEAN :
        /\ pc' = IF ok THEN "from_metadata" ELSE "failed"
        /\ trace' = Append(trace, "metadata")
    /\ UNCHANGED <<rules, matchVars, deducerVars, floodVars, checkerVars, symbolVars,
                   metaVars, analyzeVars, usageVars>>

\* execute, line 67, first half of analyze_dependency_graph: the dependency
\* graph is built from the metadata; a missing package is an error.
from_metadata ==
    /\ pc = "from_metadata"
    /\ \E ok \in BOOLEAN :
        /\ pc' = IF ok THEN "analyze" ELSE "failed"
        /\ trace' = Append(trace, "from_metadata")
    /\ UNCHANGED <<rules, matchVars, deducerVars, floodVars, checkerVars, symbolVars,
                   metaVars, analyzeVars, usageVars>>

\* The kinds are not computed before the build is started.
analyze_Skipped ==
    /\ pc = "analyze"
    /\ pc' = "build"
    /\ UNCHANGED trace
    /\ UNCHANGED <<rules, matchVars, deducerVars, floodVars, checkerVars, symbolVars,
                   metaVars, analyzeVars, usageVars>>

\* execute, line 67, second half: the flood fill over the whole graph
\* (compute_dependency_kinds runs to its fixed point inside this call),
\* then lines 73-88: the build is spawned and the Checker is made.
analyze ==
    /\ pc = "analyze"
    /\ \E spawned \in BOOLEAN :
        /\ pc' = IF spawned THEN "build" ELSE "failed"
        /\ trace' = Append(trace, "compute_dependency_kinds")
    /\ UNCHANGED <<rules, matchVars, deducerVars, floodVars, checkerVars, symbolVars,
                   metaVars, analyzeVars, usageVars>>

\* execute, lines 90-128 and analyze_artifact, lines 37-65: one message of
\* the build. Only a compiler artifact of a package whose kind set holds
\* Normal, with a file that is not .rmeta, goes on to add_artifact.
ReadMessage ==
    /\ pc = "build"
    /\ MessagesRead < MaxMessages
    /\ \E analyzed \in BOOLEAN :
        /\ pc' = IF analyzed THEN "add_artifact" ELSE "build"
        /\ trace' = Append(trace, IF analyzed THEN "artifact" ELSE "skipped")
    /\ UNCHANGED <<rules, matchVars, deducerVars, floodVars, checkerVars, symbolVars,
                   metaVars, analyzeVars, usageVars>>

\* add_artifact, lines 93-97: the capabilities of this one binary are
\* deduced from its symbols; an error goes up through every `?` and ends
\* the run.
deduce_caps_of_binary ==
    /\ pc = "add_artifact"
    /\ \E ok \in BOOLEAN :
        /\ pc' = IF ok THEN "target_kind" ELSE "failed"
        /\ trace' = Append(trace, "deduce")
    /\ UNCHANGED <<rules, matchVars, deducerVars, floodVars, checkerVars, symbolVars,
                   metaVars, analyzeVars, usageVars>>

\* add_artifact, lines 99-115: build scripts and proc-macros are done here.
TargetKind ==
    /\ pc = "target_kind"
    /\ \E unit_kind \in {"CustomBuild", "ProcMacro", "Lib", "Bin"} :
        pc' = IF unit_kind \in {"CustomBuild", "ProcMacro"}
              THEN "build" ELSE "unknown_crates"
    /\ UNCHANGED trace
    /\ UNCHANGED <<rules, matchVars, deducerVars, floodVars, checkerVars, symbolVars,
                   metaVars, analyzeVars, usageVars>>

\* add_artifact, lines 117-148: the crates this binary names are settled
\* (forget_or_resolve above: forgotten, or looked up among what is stored).
UnknownCrates ==
    /\ pc = "unknown_crates"
    /\ pc' = "store"
    /\ trace' = Append(trace, "propagate")
    /\ UNCHANGED <<rules, matchVars, deducerVars, floodVars, checkerVars, symbolVars,
                   metaVars, analyzeVars, usageVars>>

\* add_artifact, lines 150-326: the result is stored and reported.
StoreAndReport ==
    /\ pc = "store"
    /\ pc' = "build"
    /\ trace' = Append(trace, "store")
    /\ UNCHANGED <<rules, matchVars, deducerVars, floodVars, checkerVars, symbolVars,
                   metaVars, analyzeVars, usageVars>>

\* execute, lines 130-145: no more lines; the child is waited for.
Wait ==
    /\ pc = "build"
    /\ pc' = "done"
    /\ UNCHANGED trace
    /\ UNCHANGED <<rules, matchVars, deducerVars, floodVars, checkerVars, symbolVars,
                   metaVars, analyzeVars, usageVars>>

NextRun ==
    \/ LoadConfig
    \/ gather_cargo_metadata
    \/ from_metadata
    \/ analyze
    \/ ReadMessage
    \/ deduce_caps_of_binary
    \/ TargetKind
    \/ UnknownCrates
    \/ StoreAndReport
    \/ Wait

SpecRun == InitRun /\ [][NextRun]_vars

\* ---------------------------------------------------------------------
\* C17 (as stated): the deduction of every unit is over before the flood
\* fill over the dependency graph starts, and the flood fill is over
\* before anything is carried from one unit to another.
\* ---------------------------------------------------------------------
C17_Barrier ==
    \A i, j \in DOMAIN trace :
        /\ (trace[i] = "deduce"
            /\ trace[j] \in {"from_metadata", "compute_dependency_kinds"})
           => i < j
        /\ (trace[i] = "compute_dependency_kinds" /\ trace[j] = "propagate")
           => i < j

\* ---------------------------------------------------------------------
\* C17 (as the code has it): the graph is built and flooded before the
\* build starts, so before any unit is deduced and before anything is
\* carried from one unit to another; after that each artifact is deduced
\* and the crates it names are settled at once, one artifact at a time.
\* ---------------------------------------------------------------------
C17_GraphFirst ==
    \A i \in DOMAIN trace :
        /\ trace[i] \in {"deduce", "propagate"}
           => \E j \in 1..(i - 1) : trace[j] = "compute_dependency_kinds"
        /\ trace[i] = "compute_dependency_kinds"
           => \E j \in 1..(i - 1) : trace[j] = "from_metadata"
        /\ trace[i] = "propagate" => trace[i - 1] = "deduce"

\* A finished run in which a unit was deduced after the crates named by
\* another had been settled.
C17_Witness ==
    /\ pc = "done"
    /\ \E i, j \in DOMAIN trace :
        i < j /\ trace[i] = "propagate" /\ trace[j] = "deduce"

\* ======================================================================
\* demangle.rs: from the name in the symbol table to the demangled text
\* ======================================================================

HexDigits == <<"0", "1", "2", "3", "4", "5", "6", "7", "8", "9",
               "a", "b", "c", "d", "e", "f">>

\* char::to_digit(radix): the value of a digit, upper case taken as lower
to_digit(c, radix) ==
    LET lower == IF c = "A" THEN "a" ELSE IF c = "B" THEN "b"
                 ELSE IF c = "C" THEN "c" ELSE IF c = "D" THEN "d"
                 ELSE IF c = "E" THEN "e" ELSE IF c = "F" THEN "f" ELSE c
        hits == {n \in 0..(radix - 1) : HexDigits[n + 1] = lower}
    IN  IF hits = {} THEN None ELSE Some(CHOOSE n \in hits : TRUE)

\* the text without its leading zeros
RECURSIVE trim_zeros(_)
trim_zeros(s) == IF s # <<>> /\ Head(s) = "0" THEN trim_zeros(Tail(s)) ELSE s

\* the value of a run of digits read from the left
RECURSIVE digits_value(_, _, _)
digits_value(s, radix, acc) ==
    IF s = <<>> THEN acc
    ELSE digits_value(Tail(s), radix, acc * radix + to_digit(Head(s), radix).val)

\* a and b are runs of decimal digits of one length: a <= b as numbers
RECURSIVE digits_leq(_, _)
digits_leq(a, b) ==
    IF a = <<>> THEN TRUE
    ELSE IF Head(a) = Head(b) THEN digits_leq(Tail(a), Tail(b))
    ELSE to_digit(Head(a), 10).val < to_digit(Head(b), 10).val

\* usize::MAX
usize_MAX ==
    <<"1", "8", "4", "4", "6", "7", "4", "4", "0", "7", "3", "7", "0", "9",
    "5", "5", "1", "6", "1", "5">>
\* str::parse::<usize>() of text that is all digits (64-bit usize)
parse_usize(s) ==
    LET sig == trim_zeros(s)
    IN  IF s = <<>> THEN Err
        ELSE IF Len(sig) <= 9 THEN Ok(digits_value(sig, 10, 0))
        ELSE IF Len(sig) < 20 \/ (Len(sig) = 20 /\ digits_leq(sig, usize_MAX))
        THEN Ok(2147483647)     \* stands for every length of ten digits and
                                \* more: longer than any text of the model
        ELSE Err    \* number too large to fit in target type

\* u32::from_str_radix(nr, 16); the value matters up to 0x10FFFF only, so
\* everything from seven digits on is one value beyond it
u32_from_str_radix_16(nr) ==
    LET unsigned == IF nr # <<>> /\ Head(nr) = "+" THEN Tail(nr) ELSE nr
        sig == trim_zeros(unsigned)
    IN  IF unsigned = <<>> THEN Err
        ELSE IF \E i \in 1..Len(unsigned) : ~to_digit(unsigned[i], 16).some THEN Err
        ELSE IF Len(sig) > 8 THEN Err
        ELSE IF Len(sig) > 6 THEN Ok(16777216)
        ELSE Ok(digits_value(sig, 16, 0))

\* the characters that the escapes of the inputs stand for
CodePoints ==
    (32 :> " ") @@ (34 :> "\"") @@ (36 :> "$") @@ (38 :> "&") @@ (59 :> ";") @@ (60 :> "<")
    @@ (62 :> ">") @@ (91 :> "[") @@ (93 :> "]") @@ (123 :> "{") @@ (125 :> "}")

\* char::from_u32: None for a surrogate and beyond 0x10FFFF
char_from_u32(nr) ==
    IF (55296 <= nr /\ nr <= 57343) \/ nr > 1114111 THEN None
    ELSE IF nr \in DOMAIN CodePoints THEN Some(CodePoints[nr])
    ELSE Some("?")  \* a character that no input_ of the model asks for

\* str::split(c)
RECURSIVE split_char(_, _)
split_char(s, c) ==
    LET at == find(s, <<c>>)
    IN  IF at.some
        THEN <<Slice(s, 0, at.val)>> \o split_char(SliceFrom(s, at.val + 1), c)
        ELSE <<s>>

\* str::replace
RECURSIVE replace(_, _, _)
replace(s, from, to) ==
    LET at == find(s, from)
    IN  IF at.some
        THEN Slice(s, 0, at.val) \o to \o replace(SliceFrom(s, at.val + Len(from)), from, to)
        ELSE s

\* A slip: the unicode escapes are left as they are written.
decode_part_TableOnly(part) ==
    IF part = <<"B", "P">> THEN <<"*">>
    ELSE IF part = <<"C">> THEN <<",">>
    ELSE IF part = <<"R", "F">> THEN <<"&">>
    ELSE IF part = <<"L", "T">> THEN <<"<">>
    ELSE IF part = <<"G", "T">> THEN <<">">>
    ELSE IF part = <<"L", "P">> THEN <<"(">>
    ELSE IF part = <<"R", "P">> THEN <<")">>
    ELSE part

\* decode_rust_type, the body of `for part in contents.split(',')`
decode_part(part) ==
    LET nr == strip_prefix(part, <<"u">>)
        value == u32_from_str_radix_16(nr.val)
    IN  IF nr.some
        THEN IF value.ok /\ char_from_u32(value.val).some
             THEN <<char_from_u32(value.val).val>>
             ELSE part
        ELSE IF part = <<"B", "P">> THEN <<"*">>
        ELSE IF part = <<"C">> THEN <<",">>
        ELSE IF part = <<"R", "F">> THEN <<"&">>
        ELSE IF part = <<"L", "T">> THEN <<"<">>
        ELSE IF part = <<"G", "T">> THEN <<">">>
        ELSE IF part = <<"L", "P">> THEN <<"(">>
        ELSE IF part = <<"R", "P">> THEN <<")">>
        ELSE part

RECURSIVE decode_parts(_)
decode_parts(parts) ==
    IF parts = <<>> THEN <<>> ELSE decode_part(Head(parts)) \o decode_parts(Tail(parts))

RECURSIVE decode_loop(_, _)
\* decode_rust_type, lines 29-58: after the first `$`
decode_end(decoded, rest, end_dollar) ==
    IF end_dollar.some
    THEN decode_loop(SliceFrom(rest, end_dollar.val + 1),
                     decoded \o decode_parts(split_char(Slice(rest, 0, end_dollar.val), ",")))
    ELSE decoded \o rest

decode_escape(decoded, rest) == decode_end(decoded, rest, find(rest, <<"$">>))

\* decode_rust_type, lines 26-28 and 60
decode_start(encoded, decoded, start_dollar) ==
    IF ~start_dollar.some THEN decoded \o encoded
    ELSE decode_escape(decoded \o Slice(encoded, 0, start_dollar.val),
                       SliceFrom(encoded, start_dollar.val + 1))

\* decode_rust_type, the `while let Some(start_dollar)` loop and the
\* push_str after it
decode_loop(encoded, decoded) == decode_start(encoded, decoded, find(encoded, <<"$">>))

decode_rust_type(encoded) ==
    replace(replace(decode_loop(encoded, <<>>), <<" ", ".", ">", " ">>, <<" ", "-", ">", " ">>),
            <<".", ".">>, <<":", ":">>)

\* the end of the leading run of digits, as parse_length_prefix finds it
RECURSIVE digits_end(_)
digits_end(input_) ==
    IF input_ # <<>> /\ is_ascii_digit(Head(input_)) THEN 1 + digits_end(Tail(input_)) ELSE 0

\* parse_length_prefix, lines 111-119
length_prefix(input_, end) ==
    IF end = 0 THEN None
    ELSE IF ~parse_usize(Slice(input_, 0, end)).ok THEN None
    ELSE Some([length |-> parse_usize(Slice(input_, 0, end)).val,
               remaining |-> SliceFrom(input_, end)])

\* A slip: the length prefix is taken to be one digit.
parse_length_prefix_OneDigit(input_) ==
    IF input_ = <<>> \/ ~is_ascii_digit(Head(input_)) THEN None
    ELSE Some([length |-> to_digit(Head(input_), 10).val, remaining |-> Tail(input_)])

\* parse_length_prefix: Option<(usize, &str)>
parse_length_prefix(input_) == length_prefix(input_, digits_end(input_))

\* components.join("::")
RECURSIVE join_colons(_)
join_colons(components) ==
    IF components = <<>> THEN <<>>
    ELSE IF Len(components) = 1 THEN components[1]
    ELSE components[1] \o <<":", ":">> \o join_colons(Tail(components))

RECURSIVE manual_loop(_, _)
\* try_manual_demangle, lines 83-90: one component is split off
manual_split(components, component, rest) ==
    IF rest # <<>> /\ ~is_ascii_digit(Head(rest))
    THEN Ok(Append(components, component))
    ELSE manual_loop(rest, Append(components, component))

\* try_manual_demangle, lines 77-81
manual_group(components, prefix) ==
    IF ~prefix.some THEN Err
    ELSE IF Len(prefix.val.remaining) < prefix.val.length THEN Ok(components)
    ELSE manual_split(components,
                      Slice(prefix.val.remaining, 0, prefix.val.length),
                      SliceFrom(prefix.val.remaining, prefix.val.length))

\* try_manual_demangle, the `while` loop: Ok(components), or Err where a `?`
\* leaves the function
manual_loop(input_, components) ==
    IF input_ = <<>> \/ ~is_ascii_digit(Head(input_)) THEN Ok(components)
    ELSE manual_group(components, parse_length_prefix(input_))

\* try_manual_demangle, lines 93-97
manual_result(components) ==
    IF ~components.ok THEN None
    ELSE IF components.val = <<>> THEN None
    ELSE Some(join_colons(components.val))

\* try_manual_demangle: Option<String>
try_manual_demangle(name_) ==
    IF ~starts_with(name_, <<"_", "_", "Z", "N">>) THEN None
    ELSE manual_result(manual_loop(SliceFrom(name_, 4), <<>>))

\* what demangle_symbol went through and what it returns
demangle_trim(external, manual_demangled, decoded, stripped) ==
    [via |-> IF external.some THEN "external"
             ELSE IF manual_demangled.some THEN "manual" ELSE "name",
     manual_demangled |-> manual_demangled,
     decoded |-> decoded,
     stripped |-> stripped,
     demangled |-> trim_start_underscores(stripped)]

\* demangle_symbol, lines 13-19: the cut at the last "::h", then the
\* leading underscores
demangle_strip(external, manual_demangled, decoded, hash_pos) ==
    demangle_trim(external, manual_demangled, decoded,
                  IF hash_pos.some THEN Slice(decoded, 0, hash_pos.val) ELSE decoded)

demangle_decoded(external, manual_demangled, decoded) ==
    demangle_strip(external, manual_demangled, decoded,
                   rfind(decoded, <<":", ":", "h">>))

\* demangle_symbol, lines 2-10: the text that is decoded
demangle_manual(name_, external, manual_demangled) ==
    demangle_decoded(external, manual_demangled,
                     decode_rust_type(IF external.some THEN external.val
                                      ELSE IF manual_demangled.some
                                      THEN manual_demangled.val
                                      ELSE name_))

\* demangle_symbol. `external` is what cpp_demangle, and after it
\* rustc_demangle, made of the name: None when both refused it.
demangle_symbol(name_, external) ==
    demangle_manual(name_, external,
                    IF external.some THEN None ELSE try_manual_demangle(name_))

\* ------------------------------------------------------------------------
\* The names handed to demangle_symbol

\* 4test
group_test == <<"4", "t", "e", "s", "t">>
\* 5hello
group_hello == <<"5", "h", "e", "l", "l", "o">>
\* 17hef349e8e72b897f3
group_hash ==
    <<"1", "7", "h", "e", "f", "3", "4", "9", "e", "8", "e", "7", "2", "b",
    "8", "9", "7", "f", "3">>
\* 4hint
group_hint == <<"4", "h", "i", "n", "t">>
\* 0
group_zero == <<"0">>
\* 9rest
group_short == <<"9", "r", "e", "s", "t">>
\* a::C
path_a_C == <<"a", ":", ":", "C">>
\* std::io::cursor::Cursor
path_cursor ==
    <<"s", "t", "d", ":", ":", "i", "o", ":", ":", "c", "u", "r", "s", "o",
    "r", ":", ":", "C", "u", "r", "s", "o", "r">>
\* b::R
path_b_R == <<"b", ":", ":", "R">>
\* std::io::Read
path_read ==
    <<"s", "t", "d", ":", ":", "i", "o", ":", ":", "R", "e", "a", "d">>
\* read_exact
read_exact == <<"r", "e", "a", "d", "_", "e", "x", "a", "c", "t">>
\* __ZN4test5hello17hef349e8e72b897f3E
test_hello_mangled ==
    <<"_", "_", "Z", "N", "4", "t", "e", "s", "t", "5", "h", "e", "l", "l",
    "o", "1", "7", "h", "e", "f", "3", "4", "9", "e", "8", "e", "7", "2", "b",
    "8", "9", "7", "f", "3", "E">>
\* test::hello::hef349e8e72b897f3
test_hello_hashed ==
    <<"t", "e", "s", "t", ":", ":", "h", "e", "l", "l", "o", ":", ":", "h",
    "e", "f", "3", "4", "9", "e", "8", "e", "7", "2", "b", "8", "9", "7", "f",
    "3">>
\* test::hello
test_hello == <<"t", "e", "s", "t", ":", ":", "h", "e", "l", "l", "o">>
\* __ZN66_$LT$std..io..cursor..Cursor$LT$T$GT$$u20$as$u20$std..io..Read$GT$4read17h3955760825c0713eE
cursor_read_mangled ==
    <<"_", "_", "Z", "N", "6", "6", "_", "$", "L", "T", "$", "s", "t", "d",
    ".", ".", "i", "o", ".", ".", "c", "u", "r", "s", "o", "r", ".", ".", "C",
    "u", "r", "s", "o", "r", "$", "L", "T", "$", "T", "$", "G", "T", "$", "$",
    "u", "2", "0", "$", "a", "s", "$", "u", "2", "0", "$", "s", "t", "d", ".",
    ".", "i", "o", ".", ".", "R", "e", "a", "d", "$", "G", "T", "$", "4", "r",
    "e", "a", "d", "1", "7", "h", "3", "9", "5", "5", "7", "6", "0", "8", "2",
    "5", "c", "0", "7", "1", "3", "e", "E">>
\* <std..io..cursor..Cursor<T> as std..io..Read>::read_exact
cursor_read_dotted ==
    <<"<", "s", "t", "d", ".", ".", "i", "o", ".", ".", "c", "u", "r", "s",
    "o", "r", ".", ".", "C", "u", "r", "s", "o", "r", "<", "T", ">", " ", "a",
    "s", " ", "s", "t", "d", ".", ".", "i", "o", ".", ".", "R", "e", "a", "d",
    ">", ":", ":", "r", "e", "a", "d", "_", "e", "x", "a", "c", "t">>
\* std::io::cursor::Cursor<T>
cursor_T ==
    <<"s", "t", "d", ":", ":", "i", "o", ":", ":", "c", "u", "r", "s", "o",
    "r", ":", ":", "C", "u", "r", "s", "o", "r", "<", "T", ">">>
\* std::hint::spin_loop
hint_path ==
    <<"s", "t", "d", ":", ":", "h", "i", "n", "t", ":", ":", "s", "p", "i",
    "n", "_", "l", "o", "o", "p">>
\* <T as core::hash::Hash>::hash
hash_impl ==
    <<"<", "T", " ", "a", "s", " ", "c", "o", "r", "e", ":", ":", "h", "a",
    "s", "h", ":", ":", "H", "a", "s", "h", ">", ":", ":", "h", "a", "s",
    "h">>
\* a::b::h0123456789abcdef
hashed_path ==
    <<"a", ":", ":", "b", ":", ":", "h", "0", "1", "2", "3", "4", "5", "6",
    "7", "8", "9", "a", "b", "c", "d", "e", "f">>
\* the length-prefixed groups the mangled names are made of; the last one
\* is longer than it says
NameGroups == {group_test, group_hello, group_hash, group_hint, group_zero, group_short}
ManglePrefixes == {<<"_", "_", "Z", "N">>, <<"_", "Z", "N">>, <<>>}
MaxGroups == 2      \* the most groups of a composed name

RECURSIVE Flatten(_)
Flatten(ss) == IF ss = <<>> THEN <<>> ELSE Head(ss) \o Flatten(Tail(ss))

MangledNames ==
    {p \o Flatten(gs) \o e : p \in ManglePrefixes, gs \in SeqsUpTo(NameGroups, MaxGroups),
                             e \in {<<>>, <<"E">>}}

\* `<Type<G> as Trait>::function`, as a demangler leaves it
TypePaths == {path_a_C, path_cursor}
GenericArgs == {<<>>, <<"<", "T", ">">>, <<"<", "K", ",", "V", ">">>}
TraitPaths == {path_b_R, path_read}
TraitImplText(type_path, generic_args, trait_path, function_name) ==
    <<"<">> \o type_path \o generic_args \o <<" ", "a", "s", " ">> \o trait_path
    \o <<">", ":", ":">> \o function_name
TraitImplNames ==
    {TraitImplText(ty, g, tr, read_exact) : ty \in TypePaths, g \in GenericArgs, tr \in TraitPaths}

\* names that carry `$...$` escapes: every escape of the table of
\* decode_rust_type and three unicode escapes, each with the text it stands
\* for, and some plain text
MaxPieces == 2      \* the most pieces of a composed escaped name
Escape(token, c) == [enc |-> <<"$">> \o token \o <<"$">>, dec |-> <<c>>]
EscapePieces ==
    {Escape(<<"B", "P">>, "*"), Escape(<<"C">>, ","), Escape(<<"R", "F">>, "&"),
     Escape(<<"L", "T">>, "<"), Escape(<<"G", "T">>, ">"), Escape(<<"L", "P">>, "("),
     Escape(<<"R", "P">>, ")"), Escape(<<"u", "7", "b">>, "{"),
     Escape(<<"u", "7", "d">>, "}"), Escape(<<"u", "2", "4">>, "$"),
     [enc |-> <<"T">>, dec |-> <<"T">>]}
RECURSIVE Encoded(_)
Encoded(ps) == IF ps = <<>> THEN <<>> ELSE Head(ps).enc \o Encoded(Tail(ps))
RECURSIVE Decoded(_)
Decoded(ps) == IF ps = <<>> THEN <<>> ELSE Head(ps).dec \o Decoded(Tail(ps))
EscapeSeqs == SeqsUpTo(EscapePieces, MaxPieces)

\* $u7b$$u7b$constant$u7d$$u7d$
constant_escaped ==
    <<"$", "u", "7", "b", "$", "$", "u", "7", "b", "$", "c", "o", "n", "s",
    "t", "a", "n", "t", "$", "u", "7", "d", "$", "$", "u", "7", "d", "$">>
\* {{constant}}
constant_decoded ==
    <<"{", "{", "c", "o", "n", "s", "t", "a", "n", "t", "}", "}">>
\* $u24$x$u24$
dollar_escaped == <<"$", "u", "2", "4", "$", "x", "$", "u", "2", "4", "$">>
\* an escape that is not in the table
tlv_init == <<"$", "t", "l", "v", "$", "i", "n", "i", "t">>
\* a unicode escape that is no character
surrogate_escaped == <<"$", "u", "d", "8", "0", "0", "$">>
\* a `$` without its partner
lone_dollar == <<"a", "$", "b">>
\* two escapes in one pair of `$`
comma_escaped == <<"$", "L", "T", ",", "G", "T", "$">>
EscapedNames ==
    {Encoded(ps) : ps \in EscapeSeqs}
    \cup {constant_escaped, dollar_escaped, tlv_init, surrogate_escaped, lone_dollar,
          comma_escaped}

\* type paths whose first segment begins with the letters of a prefix token
\* dyn_clone::X
dyn_clone_X == <<"d", "y", "n", "_", "c", "l", "o", "n", "e", ":", ":", "X">>
\* mutex_crate::Y
mutex_crate_Y ==
    <<"m", "u", "t", "e", "x", "_", "c", "r", "a", "t", "e", ":", ":", "Y">>
\* constant_time::Z
constant_time_Z ==
    <<"c", "o", "n", "s", "t", "a", "n", "t", "_", "t", "i", "m", "e", ":",
    ":", "Z">>
PrefixLikePaths == {dyn_clone_X, mutex_crate_Y, constant_time_Z}
PrefixLikeNames ==
    {TraitImplText(ty, <<>>, path_b_R, read_exact) : ty \in PrefixLikePaths}

NamePool ==
    MangledNames \cup TraitImplNames \cup EscapedNames \cup PrefixLikeNames
    \cup {test_hello_mangled, cursor_read_mangled, cursor_read_dotted, hint_path,
          hash_impl, hashed_path}

\* what cpp_demangle or rustc_demangle hands back when it takes a name
ExternalTexts == {test_hello_hashed, hint_path, hash_impl}

\* ------------------------------------------------------------------------
\* Symbol::with_metadata and Symbol::paths (symbol.rs)

InitSymbol ==
    /\ symbol_name \in NamePool
    /\ decoding = [stage |-> "mangled"]
    /\ rules = <<>> /\ MatchIdle /\ DeducerIdle /\ FloodIdle /\ CheckerIdle /\ RunIdle
    /\ MetaIdle /\ AnalyzeIdle /\ UsageIdle

\* Symbol::with_metadata: the name is demangled
WithMetadata ==
    /\ decoding.stage = "mangled"
    /\ \E external \in {None} \cup {Some(t) : t \in ExternalTexts} :
        decoding' = [stage |-> "demangled"] @@ demangle_symbol(symbol_name, external)
    /\ UNCHANGED <<symbol_name, rules, matchVars, deducerVars, floodVars, checkerVars, runVars,
                   metaVars, analyzeVars, usageVars>>

\* Symbol::paths: the paths of the demangled text
Paths ==
    /\ decoding.stage = "demangled"
    /\ decoding' = [decoding EXCEPT !.stage = "paths"]
                   @@ [paths |-> from_demangled(decoding.demangled)]
    /\ UNCHANGED <<symbol_name, rules, matchVars, deducerVars, floodVars, checkerVars, runVars,
                   metaVars, analyzeVars, usageVars>>

NextSymbol == WithMetadata \/ Paths

SpecSymbol == InitSymbol /\ [][NextSymbol]_vars

\* Vec<FunctionOrPath> of RustPath entries
RustPaths(ps) == [i \in 1..Len(ps) |-> [tag |-> "RustPath", path |-> ps[i]]]

\* ---------------------------------------------------------------------
\* C18 (as stated): the paths of `<Type<G..> as Trait>::function` are the
\* module path of the type, without its generic arguments, and then the
\* module path of the trait.
\* ---------------------------------------------------------------------
C18_ModulePaths ==
    \A ty \in TypePaths, g \in GenericArgs, tr \in TraitPaths :
        (decoding.stage = "paths"
         /\ decoding.demangled = TraitImplText(ty, g, tr, read_exact))
        => decoding.paths = [panic |-> FALSE, paths |-> RustPaths(<<ty, tr>>)]

\* ---------------------------------------------------------------------
\* C18 (as the code has it): the paths of `<Type<G..> as Trait>::function`
\* are the text of the type, its generic arguments still on it, and then
\* the path of the trait; no generic argument is a path of its own.
\* `<std::io::cursor::Cursor<T> as std::io::Read>::read_exact` gives
\* std::io::cursor::Cursor<T> and std::io::Read.
\* ---------------------------------------------------------------------
C18_TypeText ==
    \A ty \in TypePaths, g \in GenericArgs, tr \in TraitPaths :
        (decoding.stage = "paths"
         /\ decoding.demangled = TraitImplText(ty, g, tr, read_exact))
        => decoding.paths = [panic |-> FALSE, paths |-> RustPaths(<<ty \o g, tr>>)]

\* The paths of <std..io..cursor..Cursor<T> as std..io..Read>::read_exact
\* have been collected.
C18_Witness ==
    /\ decoding.stage = "paths"
    /\ symbol_name = cursor_read_dotted
    /\ decoding.via = "name"
    /\ decoding.paths.paths = RustPaths(<<cursor_T, path_read>>)

\* ---------------------------------------------------------------------
\* C19: the hash suffix is cut off only where the decoded text ends with
\* `::h` and 16 hexadecimal characters; any other decoded text keeps all
\* of its segments.
\* ---------------------------------------------------------------------
IsHex(c) == to_digit(c, 16).some /\ c \notin {"A", "B", "C", "D", "E", "F"}

EndsWithHash(s) ==
    /\ Len(s) >= 19
    /\ SubSeq(s, Len(s) - 18, Len(s) - 16) = <<":", ":", "h">>
    /\ \A i \in (Len(s) - 15)..Len(s) : IsHex(s[i])

C19_OnlyHash ==
    decoding.stage \in {"demangled", "paths"}
    => decoding.stripped = IF EndsWithHash(decoding.decoded)
                           THEN SubSeq(decoding.decoded, 1, Len(decoding.decoded) - 19)
                           ELSE decoding.decoded

\* ---------------------------------------------------------------------
\* C20: the manual decoder
\* ---------------------------------------------------------------------

\* The contents of the leading groups <decimal length><that many
\* characters> of a text, up to the first place where no whole group starts.
RECURSIVE GroupsOf(_)
GroupsOf(s) ==
    IF s = <<>> \/ ~is_ascii_digit(Head(s)) THEN <<>>
    ELSE LET rest == SliceFrom(s, digits_end(s))
             len == digits_value(Slice(s, 0, digits_end(s)), 10, 0)
         IN  IF Len(rest) < len THEN <<>>
             ELSE <<Slice(rest, 0, len)>> \o GroupsOf(SliceFrom(rest, len))

\* What the decoder is to return for a name, given the prefixes it takes.
ManualResult(name_, prefixes) ==
    LET taken == {p \in prefixes : starts_with(name_, p)}
        groups == GroupsOf(SliceFrom(name_, Len(CHOOSE p \in taken : TRUE)))
    IN  IF taken = {} THEN None
        ELSE IF groups = <<>> THEN None
        ELSE Some(join_colons(groups))

\* C20 (as stated): for a name that starts with the `_ZN` prefix, with or
\* without one more underscore before it, the manual decoder returns the
\* contents of the groups joined by `::`, and nothing when the prefix is
\* absent or there is no group.
C20_ManualZN ==
    (decoding.stage \in {"demangled", "paths"} /\ decoding.via # "external")
    => decoding.manual_demangled
       = ManualResult(symbol_name, {<<"_", "Z", "N">>, <<"_", "_", "Z", "N">>})

\* C20 (as the code has it): for a name that starts with `__ZN` the manual
\* decoder returns the contents of the groups joined by `::`, and nothing
\* when that prefix is absent, a name with the bare `_ZN` included, or
\* there is no group. __ZN4test5hello17hef349e8e72b897f3E gives
\* test::hello::hef349e8e72b897f3 and, the hash cut off, test::hello.
C20_ManualUnderscoreZN ==
    (decoding.stage \in {"demangled", "paths"} /\ decoding.via # "external")
    => /\ decoding.manual_demangled
          = ManualResult(symbol_name, {<<"_", "_", "Z", "N">>})
       /\ symbol_name = test_hello_mangled
          => /\ decoding.manual_demangled = Some(test_hello_hashed)
             /\ decoding.demangled = test_hello

\* __ZN4test5hello17hef349e8e72b897f3E went through the manual decoder.
C20_Witness ==
    /\ decoding.stage = "demangled"
    /\ symbol_name = test_hello_mangled
    /\ decoding.via = "manual"
    /\ decoding.manual_demangled = Some(test_hello_hashed)
    /\ decoding.demangled = test_hello

\* ------------------------------------------------------------------------
\* C21

\* the text that is decoded when no demangler takes the name
DecodedName == decoding.stage # "mangled" /\ decoding.via = "name"

\* the number of `$` in a text
RECURSIVE Dollars(_)
Dollars(s) ==
    IF s = <<>> THEN 0 ELSE (IF Head(s) = "$" THEN 1 ELSE 0) + Dollars(Tail(s))

\* C21, as stated: every escape of the table and every unicode escape is
\* replaced by its character, `$u7b$$u7b$constant$u7d$$u7d$` decodes to
\* `{{constant}}`, and no decoded text holds a `$...$` token any more,
\* whatever the input
C21_NoToken ==
    DecodedName =>
        /\ \A ps \in EscapeSeqs : symbol_name = Encoded(ps) => decoding.decoded = Decoded(ps)
        /\ symbol_name = constant_escaped => decoding.decoded = constant_decoded
        /\ Dollars(decoding.decoded) < 2

\* C21: every escape of the table and every unicode escape is replaced by
\* its character, `$u7b$$u7b$constant$u7d$$u7d$` decodes to `{{constant}}`,
\* and the decoded text holds no `$` but those that a `$u24$` of the input
\* stands for: an escape that is not in the table, a unicode escape that is
\* no character and a `$` without its partner all lose their `$`
C21_Decoded ==
    DecodedName =>
        /\ \A ps \in EscapeSeqs : symbol_name = Encoded(ps) => decoding.decoded = Decoded(ps)
        /\ symbol_name = constant_escaped => decoding.decoded = constant_decoded
        /\ Dollars(decoding.decoded) > 0 => contains(symbol_name, <<"u", "2", "4">>)
        /\ symbol_name = tlv_init => decoding.decoded = <<"t", "l", "v", "i", "n", "i", "t">>
        /\ symbol_name = surrogate_escaped => decoding.decoded = <<"u", "d", "8", "0", "0">>
        /\ symbol_name = lone_dollar => decoding.decoded = <<"a", "b">>
        /\ symbol_name = comma_escaped => decoding.decoded = <<"<", ">">>

C21_Witness ==
    /\ DecodedName
    /\ symbol_name = constant_escaped
    /\ decoding.decoded = constant_decoded

\* a decoded text with a `$...$` in it: `$u24$x$u24$` stands for `$x$`
C21_DollarToken ==
    /\ DecodedName
    /\ symbol_name = dollar_escaped
    /\ decoding.decoded = <<"$", "x", "$">>

\* ------------------------------------------------------------------------
\* C22

\* the rules of the table that own a matching pattern of the greatest length
\* among the matching patterns
LongestMatchRules(rs, symbol) ==
    LET M == MatchingPatterns(rs, symbol)
    IN  {rm[1] : rm \in {rn \in M : \A ro \in M : Len(ro[2].text) <= Len(rn[2].text)}}

\* C22: when several matching patterns share the greatest length,
\* match_symbol returns the capability set of the rule that comes first in
\* the table among the rules that own one of them; the result is fixed by
\* the table and the path, so every call with the two returns the same set
C22_FirstRegisteredWins ==
    matched.done /\ MatchingPatterns(rules, query) # {} =>
        LET L == LongestMatchRules(rules, query)
            first == CHOOSE i \in L : \A j \in L : i <= j
        IN  /\ matched.result = Some(rules[first].caps)
            /\ matched.result = match_symbol(rules, query)

\* two rules with different capabilities own matching patterns of the
\* greatest length, and the earlier rule's set is returned
C22_Witness ==
    /\ matched.done
    /\ \E i \in LongestMatchRules(rules, query), j \in LongestMatchRules(rules, query) :
          /\ i < j
          /\ rules[i].caps # rules[j].caps
          /\ matched.result = Some(rules[i].caps)

\* ------------------------------------------------------------------------
\* C23

\* the number of kinds that the nodes of the set hold, all told
RECURSIVE KindCount(_, _)
KindCount(kinds, nodes) ==
    IF nodes = {} THEN 0
    ELSE LET n == CHOOSE m \in nodes : TRUE
         IN  Cardinality(kinds[n]) + KindCount(kinds, nodes \ {n})

\* C23: on every graph, with a cycle or without, the number of nodes taken
\* from the queue never exceeds |nodes| x |classes|; a node enters the
\* queue once for its seeded kind and once more for every growth of its
\* kinds, so the nodes taken and the nodes waiting never outnumber the
\* kinds held
C23_StepBound ==
    /\ steps <= Cardinality(NodesOf(graph)) * Cardinality(DepKinds)
    /\ fpc # "seed" => steps + Len(queue) <= KindCount(kind, DOMAIN kind)
    /\ KindCount(kind, DOMAIN kind) <= Cardinality(NodesOf(graph)) * Cardinality(DepKinds)

\* the fill has finished on a graph with a cycle, and some node was taken
\* from the queue more than once
C23_Witness ==
    /\ fpc = "done"
    /\ \E e \in graph.edges, d \in graph.edges : e.from = d.to /\ e.to = d.from
    /\ steps > Cardinality(NodesOf(graph))

\* ------------------------------------------------------------------------
\* C24

\* the edges of the graph that end in the package
EdgesInto(g, p) == {e \in g.edges : e.to = p}

\* a package that is not seeded and that every edge into it reaches from a
\* package of exactly the kinds `from_kinds` with exactly the edge kind
\* `edge_kind`
ReachedOnlyBy(g, kinds, p, edge_kind, from_kinds) ==
    /\ p \notin g.starting_packages \cup g.proc_macros
    /\ EdgesInto(g, p) # {}
    /\ \A e \in EdgesInto(g, p) : e.kind = {edge_kind} /\ kinds[e.from] = from_kinds

NormalReach(g) == Visited({e \in g.edges : e.kind = {"Normal"}}, g.starting_packages)

\* C25: after the analysis a package holds Normal exactly when it is a
\* starting package or is reached from one along Normal edges only; and an
\* edge hands on Normal only when both the edge and the dependent are Normal
C25_NormalIffNormalPath ==
    /\ fpc = "done" =>
          \A p \in NodesOf(graph) : "Normal" \in kind[p] <=> p \in NormalReach(graph)
    /\ \A dep_kind \in DepKinds, crate_kind \in DepKinds :
          new_kind(dep_kind, crate_kind) = "Normal"
              <=> dep_kind = "Normal" /\ crate_kind = "Normal"

\* after the analysis one package holds Normal that is no starting package,
\* and another, reached through another kind of edge, holds kinds but not
\* Normal
C25_Witness ==
    /\ fpc = "done"
    /\ \E p \in NodesOf(graph) \ graph.starting_packages : "Normal" \in kind[p]
    /\ \E q \in NodesOf(graph) : kind[q] # {} /\ "Normal" \notin kind[q]

\* ------------------------------------------------------------------------
\* build_graph_analysis.rs: DepGraph::from_metadata and analyze

MaxDeps == 2        \* the most dependencies a package declares

\* Iterator::find: the first member of the list that passes the test
\* (`hits` are the places of the members that pass it)
iter_find(items, hits) ==
    IF hits = {} THEN None
    ELSE Some(items[CHOOSE i \in hits : \A j \in hits : i <= j])

\* from_metadata, lines 124-129: the package of the queue is looked up by
\* its id
find_package(packages, package_id) ==
    iter_find(packages, {i \in 1..Len(packages) : packages[i].id = package_id})

\* from_metadata, lines 140-152: the kind of the edge to a dependency
edge_kind_of(dep_package, dep) ==
    IF dep_package.proc_macro THEN {"ProcMacro"}
    ELSE IF dep.kind = "Normal" THEN {"Normal"}
    ELSE IF dep.kind = "Build" THEN {"Build"}
    ELSE IF dep.kind = "Development" THEN {"Dev"}
    ELSE {"Unknown"}

\* from_metadata, lines 160-166: graph.add_edge, then the dependency is
\* queued unless it was visited before
add_dependency(b, package_id, dep_package, dep) ==
    [b EXCEPT !.edges = @ \cup {[from |-> package_id, to |-> dep_package.id,
                                 kind |-> edge_kind_of(dep_package, dep)]},
              !.visited = @ \cup {dep_package.id},
              !.queue = IF dep_package.id \in b.visited THEN @
                        ELSE Append(@, dep_package.id)]

\* from_metadata, lines 131-137: the dependency is looked up by its name
find_dependency(packages, dep) ==
    iter_find(packages, {i \in 1..Len(packages) : packages[i].name = dep.name})

\* from_metadata: `for dep in &package.dependencies`
RECURSIVE visit_dependencies(_, _, _, _)
visit_dependencies(b, packages, package_id, dependencies) ==
    IF dependencies = <<>> THEN b
    ELSE LET dep_package == find_dependency(packages, Head(dependencies))
         IN  visit_dependencies(
                IF dep_package.some
                THEN add_dependency(b, package_id, dep_package.val, Head(dependencies))
                ELSE b,
                packages, package_id, Tail(dependencies))

\* from_metadata, one turn of `while let Some(package_id) = queue.pop_front()`
visit_package(b, packages, package) ==
    IF ~package.some THEN [b EXCEPT !.pc = "failed"]   \* Package not found
    ELSE visit_dependencies([b EXCEPT !.queue = Tail(@)], packages,
                            package.val.id, package.val.dependencies)

\* some order of the members of a finite set
SomeOrder(S) == CHOOSE f \in OrdersOf(S) : TRUE

\* compute_dependency_kinds from the queue q on; the result does not depend
\* on the order in which the edges of a node are met
RECURSIVE flood_fill(_, _, _)
flood_fill(g, kinds, q) ==
    IF q = <<>> THEN kinds
    ELSE LET r == visit_edges(kinds, Tail(q), kinds[Head(q)],
                              SomeOrder({e \in g.edges : e.from = Head(q)}))
         IN  flood_fill(g, r.kind, r.queue)

\* DepGraph::analyze: package -> DepKindSet, for every key of package_to_node
analyze_graph(g) ==
    flood_fill(g, SeededKind(g), SomeOrder({n \in NodesOf(g) : SeededKind(g)[n] # {}}))

\* ------------------------------------------------------------------------
\* Inputs of from_metadata: a workspace of one package, `app`, two versions
\* of `foo` and one of `bar`

PackageOf(id, name_, version, dependencies, proc_macro) ==
    [id |-> id, name |-> name_, version |-> version, dependencies |-> dependencies,
     proc_macro |-> proc_macro]

\* what a Cargo.toml declares: the name, the version asked for, the kind
DependencyPool ==
    [name : {"foo"}, req : {1, 2}, kind : {"Normal", "Build"}]
    \cup [name : {"bar"}, req : {1}, kind : {"Normal", "Development"}]

\* the packages next to `app`, each with the dependencies it may declare
foo_1 == PackageOf("foo 1", "foo", 1, <<>>, FALSE)
foo_2 == PackageOf("foo 2", "foo", 2, <<>>, FALSE)
BarPackages ==
    {PackageOf("bar 1", "bar", 1, ds, pm) :
        ds \in {<<>>, <<[name |-> "foo", req |-> 2, kind |-> "Normal"]>>,
                <<[name |-> "foo", req |-> 1, kind |-> "Unknown"]>>},
        pm \in BOOLEAN}
PackageLists ==
    {<<>>, <<foo_1>>, <<foo_2>>, <<foo_1, foo_2>>, <<foo_2, foo_1>>}
    \cup UNION {{<<b>>, <<foo_1, b>>, <<b, foo_2>>, <<foo_1, foo_2, b>>, <<foo_2, b, foo_1>>} :
                    b \in BarPackages}

MetadataPool ==
    {[packages |-> <<PackageOf("app", "app", 1, ds, FALSE)>> \o ps,
      starting_packages |-> <<"app">>] :
        ds \in SeqsUpTo(DependencyPool, MaxDeps), ps \in PackageLists}

\* the elements of a list
Range(s) == {s[i] : i \in 1..Len(s)}

\* ------------------------------------------------------------------------
\* SpecMeta: analyze_dependency_graph, one package of the queue per step

InitMeta ==
    /\ metadata \in MetadataPool
    /\ built = [pc |-> "start"]
    /\ rules = <<>> /\ MatchIdle /\ DeducerIdle /\ FloodIdle /\ CheckerIdle /\ RunIdle
    /\ SymbolIdle /\ AnalyzeIdle /\ UsageIdle

\* `for package_id in starting_packages`: queued, and inserted as Normal
InsertStarting ==
    /\ built.pc = "start"
    /\ built' = [pc |-> "loop",
                 starting_packages |-> Range(metadata.starting_packages),
                 proc_macros |-> {},
                 edges |-> {},
                 visited |-> Range(metadata.starting_packages),
                 queue |-> metadata.starting_packages]
    /\ UNCHANGED <<metadata, rules, matchVars, deducerVars, floodVars, checkerVars,
                   runVars, symbolVars, analyzeVars, usageVars>>

\* one turn of the loop of from_metadata
VisitPackage ==
    /\ built.pc = "loop"
    /\ built.queue # <<>>
    /\ built' = visit_package(built, metadata.packages,
                              find_package(metadata.packages, Head(built.queue)))
    /\ UNCHANGED <<metadata, rules, matchVars, deducerVars, floodVars, checkerVars,
                   runVars, symbolVars, analyzeVars, usageVars>>

\* Ok(graph), and analyze() on it
Analyze ==
    /\ built.pc = "loop"
    /\ built.queue = <<>>
    /\ built' = [built EXCEPT !.pc = "done"] @@ [result |-> analyze_graph(built)]
    /\ UNCHANGED <<metadata, rules, matchVars, deducerVars, floodVars, checkerVars,
                   runVars, symbolVars, analyzeVars, usageVars>>

NextMeta == InsertStarting \/ VisitPackage \/ Analyze

SpecMeta == InitMeta /\ [][NextMeta]_vars

\* ------------------------------------------------------------------------
\* C26

\* the package that cargo resolves a declared dependency to: the one of
\* that name and version, if the metadata holds it
ResolvedPackage(packages, dep) ==
    iter_find(packages, {i \in 1..Len(packages) :
                            packages[i].name = dep.name /\ packages[i].version = dep.req})

\* the declared dependencies between the packages of the metadata, as pairs
\* <<dependent id, dependency id>>
DeclaredEdges(packages) ==
    {<<p.id, ResolvedPackage(packages, d).val.id>> :
        <<p, d>> \in {pd \in UNION {{<<q, q.dependencies[i]>> : i \in 1..Len(q.dependencies)} :
                                       q \in Range(packages)} :
                        ResolvedPackage(packages, pd[2]).some}}

\* the starting packages and all that they reach through declared
\* dependencies
RECURSIVE DeclaredClosure(_, _)
DeclaredClosure(declared, seen) ==
    LET next == seen \cup {e[2] : e \in {d \in declared : d[1] \in seen}}
    IN  IF next = seen THEN seen ELSE DeclaredClosure(declared, next)

\* C26: every package that the roots reach through declared dependencies
\* has an entry in the class map and an edge from each dependent that
\* declares it, also when the metadata holds two packages of one name
C26_WholeClosure ==
    built.pc = "done" =>
        LET declared == DeclaredEdges(metadata.packages)
            closure == DeclaredClosure(declared, Range(metadata.starting_packages))
        IN  /\ closure \subseteq DOMAIN built.result
            /\ \A d \in declared :
                  d[1] \in closure =>
                      \E e \in built.edges : e.from = d[1] /\ e.to = d[2]

\* ------------------------------------------------------------------------
\* checker.rs: Checker::analyze_artifact

\* A slip: a package without an entry is analyzed as if no class map had
\* been given (the `None` that the code has commented out).
crate_info_of_AbsentAnalyzed(crate_infos_, package_id) ==
    IF ~crate_infos_.some THEN [skip |-> FALSE, set |-> None]
    ELSE IF package_id \notin DOMAIN crate_infos_.val THEN [skip |-> FALSE, set |-> None]
    ELSE IF "Normal" \notin crate_infos_.val[package_id] THEN [skip |-> TRUE]
    ELSE [skip |-> FALSE, set |-> Some(crate_infos_.val[package_id])]

\* analyze_artifact, lines 43-59: `let set = ...`, or the early return
crate_info_of(crate_infos_, package_id) ==
    IF ~crate_infos_.some THEN [skip |-> FALSE, set |-> None]
    ELSE IF package_id \notin DOMAIN crate_infos_.val THEN [skip |-> TRUE]
    ELSE IF "Normal" \notin crate_infos_.val[package_id] THEN [skip |-> TRUE]
    ELSE [skip |-> FALSE, set |-> Some(crate_infos_.val[package_id])]

RECURSIVE analyze_files(_, _, _, _)
\* analyze_artifact, lines 69-74: the `?` on add_artifact, and the count
file_added(chk, out, artifact, rest, r) ==
    IF r.result = "Err" THEN [result |-> "Err", output |-> out]
    ELSE analyze_files(chk,
            [crate_caps |-> r.crate_caps,
             num_artifacts_passed |->
                IF ~r.printed THEN out.num_artifacts_passed + 1
                ELSE out.num_artifacts_passed,
             printed |-> out.printed \/ r.printed],
            artifact, rest)

\* analyze_artifact: `for file_path in &artifact.filenames`
analyze_files(chk, out, artifact, filenames) ==
    IF filenames = <<>> THEN [result |-> "Ok", output |-> out]
    ELSE IF Head(filenames).rmeta THEN analyze_files(chk, out, artifact, Tail(filenames))
    ELSE file_added(chk, out, artifact, Tail(filenames),
                    add_artifact(chk, out.crate_caps, artifact.package_name,
                                 artifact.kind, Head(filenames).deduced_caps))

\* analyze_artifact after the package was found in the metadata
analyze_found(chk, out, info, artifact) ==
    IF info.skip THEN [result |-> "Ok", output |-> out]
    ELSE analyze_files(chk, out, artifact, artifact.filenames)

\* Checker::analyze_artifact. out is the CheckerOutput, with `printed` for
\* whether anything was printed; a package that the metadata does not hold
\* makes the unwrap() panic.
analyze_artifact(chk, out, crate_infos_, artifact) ==
    IF ~artifact.in_metadata THEN [result |-> "panic", output |-> out]
    ELSE analyze_found(chk, out, crate_info_of(crate_infos_, artifact.package_name),
                       artifact)

\* ------------------------------------------------------------------------
\* Inputs of analyze_artifact

\* a file of an artifact: an .rmeta, or a binary with what
\* deduce_caps_of_binary makes of it
rmeta_file == [rmeta |-> TRUE]
binary_file(deduced_caps) == [rmeta |-> FALSE, deduced_caps |-> deduced_caps]
plain_binary == binary_file(Ok(DefaultDeducedCapabilities))
net_binary ==
    binary_file(Ok([DefaultDeducedCapabilities EXCEPT !.own_caps = "Net" :> {"symbol"}]))
FileLists ==
    {<<rmeta_file>>, <<plain_binary>>, <<net_binary>>, <<binary_file(Err)>>,
     <<rmeta_file, plain_binary>>, <<net_binary, plain_binary>>}

ArtifactPool ==
    [package_name : PackageNames, kind : TargetKinds, in_metadata : {TRUE},
     filenames : FileLists]
    \cup {[package_name |-> <<"b">>, kind |-> "Lib", in_metadata |-> FALSE,
           filenames |-> <<rmeta_file>>]}

\* what calc_crate_kinds hands over: no map, or the classes of the packages
CrateInfosPool ==
    {None,
     Some(<<"a">> :> {"Normal"}),
     Some(<<"a">> :> {"Build"}),
     Some(<<"a">> :> {"Normal", "Build"} @@ <<"b">> :> {"ProcMacro"})}

\* ------------------------------------------------------------------------
\* SpecAnalyze: the artifacts of a build handed to Checker::analyze_artifact

InitAnalyze ==
    /\ checker \in [config : {<<>>}, show_empty : BOOLEAN, build_rs : {{}}]
    /\ crate_infos \in CrateInfosPool
    /\ num_artifacts_passed = 0
    /\ artifacts = 0
    /\ crate_caps = <<>>
    /\ last = [op |-> "none"]
    /\ rules = <<>> /\ MatchIdle /\ DeducerIdle /\ FloodIdle /\ RunIdle /\ SymbolIdle
    /\ MetaIdle /\ UsageIdle

\* the output after the call, and what the call was
AnalyzeArtifactReturns(artifact, r) ==
    /\ crate_caps' = r.output.crate_caps
    /\ num_artifacts_passed' = r.output.num_artifacts_passed
    /\ last' = [op |-> "analyze_artifact", artifact |-> artifact, result |-> r.result,
                printed |-> r.output.printed, crate_caps_before |-> crate_caps,
                num_artifacts_passed_before |-> num_artifacts_passed]

\* one CompilerArtifact message; an Err or a panic of an earlier one has
\* ended the run
AnalyzeArtifact ==
    /\ IF last.op = "none" THEN TRUE ELSE last.result = "Ok"
    /\ artifacts < MaxArtifacts
    /\ \E artifact \in ArtifactPool :
          AnalyzeArtifactReturns(artifact,
              analyze_artifact(checker,
                  [crate_caps |-> crate_caps,
                   num_artifacts_passed |-> num_artifacts_passed,
                   printed |-> FALSE],
                  crate_infos, artifact))
    /\ artifacts' = artifacts + 1
    /\ UNCHANGED <<checker, crate_infos, rules, matchVars, deducerVars, floodVars, runVars,
                   symbolVars, metaVars, usageVars>>

NextAnalyze == AnalyzeArtifact

SpecAnalyze == InitAnalyze /\ [][NextAnalyze]_vars

\* ------------------------------------------------------------------------
\* C27

\* the last call was for a package that the class map does not hold, or
\* holds without Normal
SkippedPackage ==
    /\ last.op = "analyze_artifact"
    /\ last.artifact.in_metadata
    /\ crate_infos.some
    /\ IF last.artifact.package_name \in DOMAIN crate_infos.val
       THEN "Normal" \notin crate_infos.val[last.artifact.package_name]
       ELSE TRUE

\* C27: analyze_artifact leaves the output as it was - crate_caps and
\* num_artifacts_passed unchanged, nothing printed - and returns Ok for an
\* artifact of a package whose class set lacks Normal and for one of a
\* package without an entry in the class map
C27_SkippedUntouched ==
    SkippedPackage =>
        /\ crate_caps = last.crate_caps_before
        /\ num_artifacts_passed = last.num_artifacts_passed_before
        /\ ~last.printed
        /\ last.result = "Ok"

\* an artifact with a readable binary, of a package without an entry in the
\* class map, was skipped after an earlier artifact was stored and counted
C27_Witness ==
    /\ SkippedPackage
    /\ last.artifact.package_name \notin DOMAIN crate_infos.val
    /\ \E i \in 1..Len(last.artifact.filenames) :
          /\ ~last.artifact.filenames[i].rmeta
          /\ last.artifact.filenames[i].deduced_caps.ok
    /\ crate_caps # <<>>
    /\ num_artifacts_passed > 0

\* ------------------------------------------------------------------------
\* C30

\* C30: an artifact of the kind CustomBuild or ProcMacro never increments
\* num_artifacts_passed
C30_BuildScriptsNotCounted ==
    last.op = "analyze_artifact" /\ last.artifact.kind \in {"CustomBuild", "ProcMacro"}
        => num_artifacts_passed = last.num_artifacts_passed_before

\* ------------------------------------------------------------------------
\* C29

\* C29: a module path inside a trait-impl symbol whose first segment only
\* begins with the letters of a prefix token (dyn_clone::X, mutex_crate::Y,
\* constant_time::Z) is collected unchanged, so that its first segment is
\* the full name of the owning crate
C29_WholeTokens ==
    \A ty \in PrefixLikePaths :
        (decoding.stage = "paths"
         /\ decoding.demangled = TraitImplText(ty, <<>>, path_b_R, read_exact))
        => decoding.paths = [panic |-> FALSE, paths |-> RustPaths(<<ty, path_b_R>>)]

\* ------------------------------------------------------------------------
\* src_analysis.rs: ExternalUsage

\* Vec::extend: the elements of the other list after those of this one
vec_extend(slf_, other) == slf_ \o other

\* HashSet::extend
set_extend(slf_, other) == slf_ \cup other

\* ExternalUsage::merge: the fields of self.merge(other), other being
\* dropped after the call
merge(slf_, other) ==
    [unsupported |-> slf_.unsupported,
     use_statements |-> vec_extend(slf_.use_statements, other.use_statements),
     qualified_paths |-> set_extend(slf_.qualified_paths, other.qualified_paths),
     modules |-> set_extend(slf_.modules, other.modules),
     types |-> set_extend(slf_.types, other.types),
     root_crates |-> set_extend(slf_.root_crates, other.root_crates)]

\* ------------------------------------------------------------------------
\* Inputs of merge: what the scan of a source file leaves behind

\* the lists of places of unsupported code (Span) and of use statements,
\* and the names that the scans find
Spans == {<<>>, <<"1:0">>}
UseStatements == {<<>>, <<"std::fs::File">>}
StdOnly ==
    [qualified_paths |-> {"std::fs::File::open"}, modules |-> {"std::fs"},
     types |-> {}, root_crates |-> {"std"}]
WithSerde ==
    [qualified_paths |-> {"serde_json::from_str"}, modules |-> {"serde_json"},
     types |-> {"serde::Serialize"}, root_crates |-> {"serde", "serde_json"}]
NothingFound ==
    [qualified_paths |-> {}, modules |-> {}, types |-> {}, root_crates |-> {}]

MaxMerges == 2      \* the most calls of merge on one value

ExternalUsagePool ==
    {[unsupported |-> u, use_statements |-> s] @@ found :
        u \in Spans, s \in UseStatements, found \in {StdOnly, WithSerde, NothingFound}}

\* ------------------------------------------------------------------------
\* SpecUsage: the results of the scans of some files merged into one

InitUsage ==
    /\ usage \in [op : {"default"}, slf : ExternalUsagePool, merges : {0}]
    /\ rules = <<>> /\ MatchIdle /\ DeducerIdle /\ FloodIdle /\ CheckerIdle /\ RunIdle
    /\ SymbolIdle /\ MetaIdle /\ AnalyzeIdle

\* a.merge(b); `before` and `other` keep a and b as they were
Merge ==
    /\ usage.op # "none"
    /\ usage.merges < MaxMerges
    /\ \E other \in ExternalUsagePool :
          usage' = [op |-> "merge", slf |-> merge(usage.slf, other),
                    merges |-> usage.merges + 1,
                    before |-> usage.slf, other |-> other]
    /\ UNCHANGED <<rules, matchVars, deducerVars, floodVars, checkerVars, runVars,
                   symbolVars, metaVars, analyzeVars>>

NextUsage == Merge

SpecUsage == InitUsage /\ [][NextUsage]_vars

\* ------------------------------------------------------------------------
\* C28

\* C28: after a.merge(b), a.unsupported is non-empty whenever a or b had a
\* non-empty `unsupported` before the call
C28_UnsupportedKept ==
    usage.op = "merge" =>
        (usage.before.unsupported # <<>> \/ usage.other.unsupported # <<>>
            => usage.slf.unsupported # <<>>)
====
